---- MODULE Spec2Model ----
(***************************************************************************)
(* PaymentService (src/src/services/payment.js): the entitlement           *)
(* reconciler getUnifiedSubscriptionStatus, startTrial, the usage gate     *)
(* canUseExtension and clearStatusCache, as a state machine.               *)
(*                                                                         *)
(* Every async method is cut at its awaits: one step of a task is the code *)
(* that runs between two awaits, so storage writes of other operations and *)
(* the passing of time interleave exactly where the event loop allows.     *)
(* The Remote Authority is external: every fetch draws its outcome from    *)
(* the finite sets below.  chrome.storage.local is taken to be operable    *)
(* (its get/set promises resolve); chrome.storage.sync may reject.         *)
(*                                                                         *)
(* Spec is the reconciler with the usage gate.  FaultSpec lets             *)
(* chrome.storage.local reject, TokenSpec is initializeDeviceToken with    *)
(* concurrent getDeviceToken calls, PeriodicSpec adds the periodic check,  *)
(* ActivationSpec is startSmartSubscriptionCheck with restorePurchase.     *)
(* NoTokenSpec is the reconciler without a device token, UsageSpec is      *)
(* trackUsage, CheckoutSpec adds generateCheckoutUrl, RestoreSpec runs     *)
(* restorePurchase beside a status caller, InstallSpec is the two status   *)
(* calls of the background script after an installation.                   *)
(***************************************************************************)
EXTENDS Integers, Sequences, FiniteSets, TLC

(***************************************************************************)
(* Bounds of the model and constants of the program.                       *)
(***************************************************************************)
\* granularity of the clock, in ms
TickMs == 10000
\* the clock stops advancing after this many ticks
MaxTicks == 3
\* this.CACHE_DURATION
CACHE_DURATION == 30000
\* this.TRIAL_DURATION_DAYS
TRIAL_DURATION_DAYS == 3
\* maxRetries of makeWorkerRequest
maxRetries == 3

DayMs == 24 * 60 * 60 * 1000
MaxNow == MaxTicks * TickMs

\* the tasks (concurrent callers of the service) of the base specification
Tasks == {"t1"}

(***************************************************************************)
(* Dates.  A stored date is a string; IsoString(ms) is what toISOString    *)
(* yields (millisecond precision), CorruptDate a string Date cannot parse, *)
(* NoDate an absent field.  DateParse is `new Date(s)`: a parsed date is   *)
(* valid with a time value, or invalid (getTime() is NaN).                 *)
(***************************************************************************)
IsoString(ms) == [text |-> "iso", ms |-> ms]
CorruptDate == [text |-> "garbage", ms |-> 0]
NoDate == [text |-> "undefined", ms |-> 0]

DateParse(s) == [valid |-> s.text = "iso", t |-> IF s.text = "iso" THEN s.ms ELSE 0]
IsNaN(d) == ~d.valid
\* mutant: the comparison written `now <= d`
DateLe(nowMs, d) == d.valid /\ nowMs <= d.t

\* `now < d` of JavaScript on a time value and a Date: false when d is NaN
DateLt(nowMs, d) == d.valid /\ nowMs < d.t

(***************************************************************************)
(* Records of chrome.storage.local.                                        *)
(***************************************************************************)
Token == "device_token"
NoToken == "undefined"

NoSub == [present |-> FALSE, active |-> FALSE, plan |-> "undefined"]
SubRecord(active, plan) == [present |-> TRUE, active |-> active, plan |-> plan]

NoTrial ==
    [present |-> FALSE, deviceToken |-> NoToken, trialEndsAt |-> NoDate,
     startedAt |-> NoDate, serverVerified |-> FALSE, restoredFromServer |-> FALSE]
TrialRecord(tok, ends, started, restored) ==
    [present |-> TRUE, deviceToken |-> tok, trialEndsAt |-> ends,
     startedAt |-> started, serverVerified |-> TRUE, restoredFromServer |-> restored]

(***************************************************************************)
(* EntitlementStatus objects.  shape "status" is an object literal built   *)
(* by getUnifiedSubscriptionStatus; shape "subscription" is a subscription *)
(* object (from /check or from storage) returned as the status: it has no  *)
(* isTrialing, trialEndsAt or message field (undefined, hence falsy).      *)
(***************************************************************************)
NullStatus ==
    [shape |-> "null", active |-> FALSE, plan |-> "undefined", isTrialing |-> FALSE,
     trialEndsAt |-> NoDate, message |-> "undefined", errorDetails |-> "undefined"]
Status(plan, isTrialing, ends, message, details) ==
    [shape |-> "status", active |-> FALSE, plan |-> plan, isTrialing |-> isTrialing,
     trialEndsAt |-> ends, message |-> message, errorDetails |-> details]
SubStatus(sub) ==
    [shape |-> "subscription", active |-> sub.active, plan |-> sub.plan,
     isTrialing |-> FALSE, trialEndsAt |-> NoDate, message |-> "undefined",
     errorDetails |-> "undefined"]

(***************************************************************************)
(* Texts.  Error messages thrown by startTrial, texts the server may send, *)
(* and String.prototype.includes on them, as a table over these texts.     *)
(***************************************************************************)
MsgNoToken == "No device token available"
MsgFetchFailed == "Failed to fetch"
MsgUnableConnect == "Unable to connect to trial verification server. Please check your internet connection and try again."
MsgDefaultDenied == "You have already used your free trial. Please upgrade to continue using ThreadAi."
MsgDeviceUsed == "This device has already used a free trial on <date>. Please upgrade to continue."
MsgIpDefault == "A trial has already been used from this network. Please upgrade to continue using ThreadAi."
MsgServerError == "Unable to verify trial eligibility. Please try again later."
MsgRegisterHttp == "Failed to register trial with server. Please try again."
MsgRegisterFailed == "Trial registration failed"
\* texts chosen by the server
SrvMsgIp == "Too many trials from this network"
SrvRegError == "This device has already used a trial"
\* errorDetails of a refused pre-check
DetailDeviceUsed == "This device has already used a free trial"
DetailNetworkUsed == "A trial has already been used from this network"

Includes(text, needle) ==
    CASE needle = "already used" ->
            text \in {MsgDefaultDenied, MsgDeviceUsed, SrvRegError, DetailDeviceUsed}
      [] needle = "limit exceeded" -> FALSE
      [] needle = "upgrade to continue" ->
            text \in {MsgDefaultDenied, MsgDeviceUsed, MsgIpDefault}
      [] needle = "Please upgrade" ->
            text \in {MsgDefaultDenied, MsgDeviceUsed, MsgIpDefault}
      [] needle = "Too many trials" -> text \in {SrvMsgIp}
      [] OTHER -> FALSE

(***************************************************************************)
(* The Remote Authority: the outcomes of one fetch per endpoint.  "throw"  *)
(* is a rejected fetch or a body that response.json() cannot parse,        *)
(* "http_error" a response with ok = false, "ok" a 2xx response with the   *)
(* parsed body.                                                            *)
(***************************************************************************)
NoBody == [none |-> TRUE]
NoResp == [kind |-> "none", body |-> NoBody]
Failures == {[kind |-> "throw", body |-> NoBody], [kind |-> "http_error", body |-> NoBody]}
Ok(b) == [kind |-> "ok", body |-> b]

\* GET /check?token=
CheckBodies == {SubRecord(TRUE, "pro-monthly"), SubRecord(FALSE, "undefined")}
CheckOutcomes == Failures \cup {Ok(b) : b \in CheckBodies}

\* POST /trial/status
ServerTrialEnd == 2 * TickMs
TrialStatusBodies ==
    {[hasTrial |-> FALSE, trialEndsAt |-> NoDate, startedAt |-> NoDate]} \cup
    {[hasTrial |-> TRUE, trialEndsAt |-> e,
      startedAt |-> IsoString(ServerTrialEnd - TRIAL_DURATION_DAYS * DayMs)] :
        e \in {IsoString(ServerTrialEnd), CorruptDate}}
TrialStatusOutcomes == Failures \cup {Ok(b) : b \in TrialStatusBodies}

\* POST /trial/check
TrialCheckBodies ==
    {[allowed |-> TRUE, reason |-> "undefined", message |-> "undefined"]} \cup
    {[allowed |-> FALSE, reason |-> r, message |-> "undefined"] :
        r \in {"device_already_used", "ip_limit_exceeded", "server_error", "undefined"}} \cup
    {[allowed |-> FALSE, reason |-> "ip_limit_exceeded", message |-> SrvMsgIp]}
TrialCheckOutcomes == Failures \cup {Ok(b) : b \in TrialCheckBodies}

\* POST /trial/register
RegisterBodies ==
    {[success |-> TRUE, error |-> "undefined"]} \cup
    {[success |-> FALSE, error |-> e] : e \in {"undefined", SrvRegError}}
RegisterOutcomes == Failures \cup {Ok(b) : b \in RegisterBodies}

Endpoints == {"/check", "/trial/status", "/trial/check", "/trial/register"}

(***************************************************************************)
(* The pure parts of getUnifiedSubscriptionStatus, startTrial and          *)
(* canUseExtension.                                                        *)
(***************************************************************************)
\* mutant: the window taken in seconds
CacheFreshSeconds(forceRefresh, cache, stamp, nowMs) ==
    /\ ~forceRefresh
    /\ cache # NullStatus
    /\ nowMs - stamp < CACHE_DURATION \div 1000

\* mutant: a cached status never goes stale
CacheFreshForever(forceRefresh, cache, stamp, nowMs) ==
    /\ ~forceRefresh
    /\ cache # NullStatus

\* mutant: forceRefresh not consulted
CacheFreshIgnoringForce(forceRefresh, cache, stamp, nowMs) ==
    /\ cache # NullStatus
    /\ nowMs - stamp < CACHE_DURATION

\* the cache check: !forceRefresh && this.statusCache && now - cacheTimestamp < CACHE_DURATION
CacheFresh(forceRefresh, cache, stamp, nowMs) ==
    /\ ~forceRefresh
    /\ cache # NullStatus
    /\ nowMs - stamp < CACHE_DURATION

\* mutant: the plan tested in place of the active flag
ServerSaysActiveByPlan(data) == data.present /\ data.plan = "active"

\* `if (serverStatus && serverStatus.active)`
ServerSaysActive(data) == data.present /\ data.active

\* the trial record rebuilt from a /trial/status body
RestoredTrial(tok, body) == TrialRecord(tok, body.trialEndsAt, body.startedAt, TRUE)

\* mutant: expiry decided by `now >= trialEnd`, which an unparseable date fails
ServerTrialStatusUnguarded(nowMs, body) ==
    LET trialEnd == DateParse(body.trialEndsAt) IN
    IF trialEnd.valid /\ nowMs >= trialEnd.t
    THEN Status("trial_expired", FALSE, body.trialEndsAt, "Trial expired", "undefined")
    ELSE Status("trial", TRUE, body.trialEndsAt, "Free trial active", "undefined")

\* expiry of a trial the server reported: plan 'trial' while now < trialEnd
ServerTrialStatus(nowMs, body) ==
    IF DateLt(nowMs, DateParse(body.trialEndsAt))
    THEN Status("trial", TRUE, body.trialEndsAt, "Free trial active", "undefined")
    ELSE Status("trial_expired", FALSE, body.trialEndsAt, "Trial expired", "undefined")

\* mutant: no guard, and the comparison turned round (`now >= trialEnd` decides expiry)
LocalTrialStatusUnguarded(nowMs, localTrial) ==
    LET trialEnd == DateParse(localTrial.trialEndsAt) IN
    IF trialEnd.valid /\ nowMs >= trialEnd.t
    THEN Status("trial_expired", FALSE, localTrial.trialEndsAt, "Trial expired", "undefined")
    ELSE Status("trial", TRUE, localTrial.trialEndsAt, "Free trial active", "undefined")

\* expiry of the local trial record, with the guard against an invalid date
LocalTrialStatus(nowMs, localTrial) ==
    LET trialEnd == DateParse(localTrial.trialEndsAt) IN
    IF IsNaN(trialEnd)
    THEN Status("trial_expired", FALSE, localTrial.trialEndsAt,
                "Trial expired (corrupted date)", "undefined")
    ELSE IF DateLt(nowMs, trialEnd)
    THEN Status("trial", TRUE, localTrial.trialEndsAt, "Free trial active", "undefined")
    ELSE Status("trial_expired", FALSE, localTrial.trialEndsAt, "Trial expired", "undefined")

\* mutant: a refused pre-check reported as an error
PreCheckDeniedAsError(checkResult) ==
    Status("error", FALSE, NoDate, "Unable to verify trial status", "undefined")

\* the status of a refused pre-check
PreCheckDenied(checkResult) ==
    Status("trial_denied", FALSE, NoDate, "Trial not available",
           IF checkResult.reason = "device_already_used"
           THEN DetailDeviceUsed
           ELSE DetailNetworkUsed)

\* the message of the error startTrial throws when /trial/check refuses
DenialMessage(trialCheck) ==
    CASE trialCheck.reason = "device_already_used" -> MsgDeviceUsed
      [] trialCheck.reason = "ip_limit_exceeded" ->
            IF trialCheck.message # "undefined" THEN trialCheck.message ELSE MsgIpDefault
      [] trialCheck.reason = "server_error" -> MsgServerError
      [] OTHER -> MsgDefaultDenied

\* the message of the error startTrial throws for a failed fetch
FetchErrorMessage(resp, httpMessage) ==
    IF resp.kind = "http_error" THEN httpMessage ELSE MsgFetchFailed

\* mutant: a failed registration request taken for a refusal
IsDeniedOrFailed(message) ==
    \/ Includes(message, "already used")
    \/ Includes(message, "limit exceeded")
    \/ Includes(message, "upgrade to continue")
    \/ message \in {MsgFetchFailed, MsgRegisterHttp}

\* the catch around startTrial: a denial or an error
IsDenied(message) ==
    \/ Includes(message, "already used")
    \/ Includes(message, "limit exceeded")
    \/ Includes(message, "upgrade to continue")

TrialErrorStatus(message) ==
    IF IsDenied(message)
    THEN Status("trial_denied", FALSE, NoDate, "Trial not available", message)
    ELSE Status("error", FALSE, NoDate, "Unable to verify trial status", message)

\* mutant: the outer catch reporting an expired trial
OuterCatchStatusExpired ==
    Status("trial_expired", FALSE, NoDate, "Trial expired", "undefined")

\* the status built by the outer catch of getUnifiedSubscriptionStatus
OuterCatchStatus ==
    Status("error", FALSE, NoDate, "Error checking subscription", "undefined")

\* the status after startTrial returned its trial record
IssuedTrialStatus(trialData) ==
    Status("trial", TRUE, trialData.trialEndsAt, "Free trial active", "undefined")

\* mutant: the duration counted in hours
IssuedTrialEndInHours(nowMs) == IsoString(nowMs + TRIAL_DURATION_DAYS * 60 * 60 * 1000)

\* trialEndsAt of startTrial: setDate(getDate() + TRIAL_DURATION_DAYS), as an ISO string
IssuedTrialEnd(nowMs) == IsoString(nowMs + TRIAL_DURATION_DAYS * DayMs)

\* the decision of canUseExtension on a status
Decision(canUse, reason, status) == [canUse |-> canUse, reason |-> reason, status |-> status]
NoGate == Decision(FALSE, "none", NullStatus)
IsServerDenial(status) ==
    /\ status.errorDetails # "undefined"
    /\ \/ Includes(status.errorDetails, "already used")
       \/ Includes(status.errorDetails, "Too many trials")
       \/ Includes(status.errorDetails, "Please upgrade")
       \/ Includes(status.errorDetails, "upgrade to continue")
\* mutant: the active flag not consulted
UsageDecisionWithoutActive(status) ==
    IF status.isTrialing THEN Decision(TRUE, "trial", status)
    ELSE Decision(FALSE, "trial_expired", status)

UsageDecision(status) ==
    IF status.active THEN Decision(TRUE, "subscription", status)
    ELSE IF status.isTrialing THEN Decision(TRUE, "trial", status)
    ELSE IF status.plan = "error" /\ status.message = "Error starting trial"
    THEN IF IsServerDenial(status)
         THEN Decision(FALSE, "trial_denied", status)
         ELSE Decision(TRUE, "trial_fallback", status)
    ELSE Decision(FALSE, "trial_expired", status)

(***************************************************************************)
(* State.                                                                  *)
(***************************************************************************)
VARIABLES
    now,            \* Date.now(), in ms since the service was constructed
    deviceToken,    \* chrome.storage.local 'deviceToken'
    subscription,   \* chrome.storage.local 'subscription'
    trial,          \* chrome.storage.local 'trial'
    trialEverUsed,  \* chrome.storage.local 'trialEverUsed' (is it set)
    sync,           \* chrome.storage.sync: persistent_device_token, is trial_first_used set
    statusCache,    \* this.statusCache
    cacheTimestamp, \* this.cacheTimestamp
    call,           \* per task: the running call, its locals and what it did
    approved,       \* history: the Remote Authority approved a trial for this token
    trial0,         \* history: the trial record the session started with
    onlyRefusals,   \* history: a blank device, and the Remote Authority has so far
                    \* reported no subscription, no trial and, on every /trial/check,
                    \* {allowed: false, reason: 'device_already_used'}
    init,           \* initializeDeviceToken as started by the constructor: its position,
                    \* its locals, and whether this.initPromise has settled
    getters,        \* per caller: a getDeviceToken call made from outside the service
    localFaults,    \* may chrome.storage.local reject a read or a write
    events,         \* per emitter: SUBSCRIPTION_ACTIVATED messages sent in its current run
    tickInfo,       \* history of the running periodic check: was the device active
                    \* when the tick fired, and what its status call was answered
    smart,          \* the run of startSmartSubscriptionCheck: its interval, its
                    \* notificationCheckCount, its callbacks in flight
    restore,        \* the running restorePurchase call
    usage,          \* chrome.storage.local 'usage'
    trackers,       \* per caller: a trackUsage call and the usage object it read
    ledger,         \* history of the trackUsage calls: started, completed, and
                    \* how many began while another was running
    checkoutInfo    \* history of the running generateCheckoutUrl call: the
                    \* subscription record and the cache it found, did it throw

\* the parts of the service the reconciler's own steps leave alone
pollerVars == <<smart, restore>>
usageVars == <<usage, trackers, ledger>>
restVars == <<init, getters, localFaults, events, tickInfo, pollerVars, usageVars,
              checkoutInfo>>

vars == <<now, deviceToken, subscription, trial, trialEverUsed, sync, statusCache,
          cacheTimestamp, call, approved, trial0, onlyRefusals, restVars>>

history == <<approved, trial0, onlyRefusals>>

storageVars == <<deviceToken, subscription, trial, trialEverUsed, sync>>
cacheVars == <<statusCache, cacheTimestamp>>

NoCounts == [e \in Endpoints |-> 0]

\* a call of `op` at its first statement; regSent is the trialEndsAt of the body
\* of the /trial/register request, delays the timeouts the running
\* makeWorkerRequest has set so far, lost the accesses to chrome.storage.local
\* that were rejected; second: the call is in a _checkServerStatus made by a
\* poller itself, not by getUnifiedSubscriptionStatus
NewCall(op, forceRefresh) ==
    [op |-> op, forceRefresh |-> forceRefresh, pc |-> "start", hit |-> FALSE,
     second |-> FALSE,
     endpoint |-> "none", attempt |-> 0, delays |-> <<>>,
     token |-> NoToken, data |-> NoSub, stToken |-> NoToken, trialEndsAt |-> NoDate,
     regSent |-> NoDate, trialData |-> NoTrial, ret |-> NullStatus, gate |-> NoGate,
     rCheck |-> NoResp, rStatus |-> NoResp, rPre |-> NoResp, rSt |-> NoResp,
     rReg |-> NoResp, sent |-> NoCounts, wrote |-> {}, lost |-> {},
     trialAtStart |-> trial]

IdleCall == [NewCall("none", FALSE) EXCEPT !.pc = "idle"]

\* records the local tier may hold when the service is constructed
LocalTrialEnd == TickMs
InitialSubscriptions == {NoSub, SubRecord(FALSE, "undefined"), SubRecord(TRUE, "pro-yearly")}
InitialTrials ==
    {NoTrial} \cup
    {TrialRecord(Token, e, IsoString(LocalTrialEnd - TRIAL_DURATION_DAYS * DayMs), FALSE) :
        e \in {IsoString(LocalTrialEnd), CorruptDate}}

\* callers of getDeviceToken from outside the service
Getters == {"g1", "g2", "g3"}
\* the token the sync tier may hold from an earlier installation, and the one
\* generateDeviceToken builds (time and random parts: unlike any other)
SyncedToken == "device_token_of_earlier_installation"
GeneratedToken == "device_token_generated"

\* initializeDeviceToken at the end of the constructor: it has run up to its
\* first await, the read of the local tier; local0 and sync0 are the tokens the
\* two tiers held at that moment
InitStarted(local0, sync0) ==
    [pc |-> "local_get", syncToken |-> NoToken, deviceToken |-> NoToken,
     generated |-> 0, syncGetThrew |-> FALSE, syncSetThrew |-> FALSE,
     local0 |-> local0, sync0 |-> sync0]
\* initializeDeviceToken that found the token in the local tier and returned
InitReturned(local0, sync0) == [InitStarted(local0, sync0) EXCEPT !.pc = "done"]
\* a caller of getDeviceToken; early: its call was made while the initialization
\* was still running
IdleGetter == [pc |-> "idle", result |-> NoToken, calls |-> 0, early |-> FALSE]

\* callers of trackUsage; 'usage' is absent until the first call has written
Trackers == {"u1", "u2"}
NoUsage == [present |-> FALSE, count |-> 0, actions |-> <<>>]
IdleTracker == [pc |-> "idle", usage |-> NoUsage, id |-> 0]
NoLedger == [started |-> 0, completed |-> 0, overlaps |-> 0]

NoCheckout == [subscription |-> NoSub, statusCache |-> NullStatus, threw |-> FALSE]

\* who sends SUBSCRIPTION_ACTIVATED: the periodic check, checkForInstantActivation
\* and the notification poller
Emitters == {"periodic", "instant", "poller"}
NoEvents == [e \in Emitters |-> 0]
\* no run of startSmartSubscriptionCheck yet; waiting: callbacks awaiting the
\* answer of /notifications, storing: callbacks awaiting their write of
\* 'subscription', hits: answers with hasNotification seen by the run
NoPoller == [interval |-> "off", count |-> 0, waiting |-> 0, storing |-> 0, hits |-> 0]
\* crossing: the status calls that had read the local records and not yet
\* returned when restorePurchase cleared the cache
IdleRestore ==
    [pc |-> "idle", data |-> NoSub, rLink |-> NoResp, wrote |-> FALSE, crossing |-> {}]
NoTick == [activeAtStart |-> FALSE, hit |-> FALSE, first |-> NoResp, cleared |-> FALSE]

\* the state after construction, the initialization of the device token done
Constructed ==
    /\ now = 0
    /\ deviceToken = Token
    /\ subscription \in InitialSubscriptions
    /\ trial \in InitialTrials
    /\ trialEverUsed = trial.present
    /\ sync = [persistent_device_token |-> Token, trial_first_used |-> FALSE]
    /\ statusCache = NullStatus
    /\ cacheTimestamp = 0
    /\ call = [t \in Tasks |-> IdleCall]
    /\ approved = FALSE
    /\ trial0 = trial
    /\ onlyRefusals = (~trial.present /\ ~(subscription.present /\ subscription.active))
    /\ init = InitReturned(Token, Token)
    /\ getters = [g \in Getters |-> IdleGetter]
    /\ events = NoEvents
    /\ tickInfo = NoTick
    /\ smart = NoPoller
    /\ restore = IdleRestore
    /\ usage = NoUsage
    /\ trackers = [u \in Trackers |-> IdleTracker]
    /\ ledger = NoLedger
    /\ checkoutInfo = NoCheckout

Init == Constructed /\ localFaults = FALSE

(***************************************************************************)
(* Steps shared by the operations.                                         *)
(***************************************************************************)
\* does an access to chrome.storage.local go through (TRUE) or reject (FALSE)
LocalOutcomes == IF localFaults THEN BOOLEAN ELSE {TRUE}

\* the text of the error of a rejected storage access
MsgStorage == "storage access rejected"

\* call c after its access `access` to chrome.storage.local was rejected
Lost(c, access) == [c EXCEPT !.lost = @ \cup {access}]

Send(c, endpoint) == [c EXCEPT !.sent[endpoint] = @ + 1]

\* where the caller of getUnifiedSubscriptionStatus goes on with the status:
\* canUseExtension decides, the periodic check looks at the active flag
AfterStatus(op) ==
    CASE op = "canUse" -> "gate"
      [] op = "periodic" -> "recheck"
      [] OTHER -> "done"

\* getUnifiedSubscriptionStatus caches `status` and returns it
Finish(t, c, status) ==
    /\ statusCache' = status
    /\ cacheTimestamp' = now
    /\ call' = [call EXCEPT ![t] = [c EXCEPT !.ret = status, !.pc = AfterStatus(c.op)]]

\* mutant: the backoff starting at two seconds
BackoffDelayFromTwo(attempt) == (2 ^ attempt) * 1000

\* `Math.pow(2, attempt - 1) * 1000`
BackoffDelay(attempt) == (2 ^ (attempt - 1)) * 1000

\* makeWorkerRequest after a failed attempt: set the timeout of the backoff and
\* retry, or throw lastError to `thrown`
\* mutant: one attempt more than maxRetries
RetryOnceMore(c, thrown) ==
    IF c.attempt <= maxRetries
    THEN [c EXCEPT !.pc = "mw_backoff", !.delays = Append(@, BackoffDelay(c.attempt))]
    ELSE [c EXCEPT !.pc = thrown]

\* makeWorkerRequest after a failed attempt: wait and retry, or throw
RetryOrThrow(c, thrown) ==
    IF c.attempt < maxRetries
    THEN [c EXCEPT !.pc = "mw_backoff", !.delays = Append(@, BackoffDelay(c.attempt))]
    ELSE [c EXCEPT !.pc = thrown]

(***************************************************************************)
(* getUnifiedSubscriptionStatus(forceRefresh), also as called by           *)
(* canUseExtension (forceRefresh = false).                                 *)
(***************************************************************************)
\* the call up to its first await: the cache check, then _checkServerStatus
\* starts getDeviceToken
Entered(op, forceRefresh) ==
    LET c == NewCall(op, forceRefresh) IN
    IF CacheFresh(forceRefresh, statusCache, cacheTimestamp, now)
    THEN [c EXCEPT !.hit = TRUE, !.ret = statusCache, !.pc = AfterStatus(op)]
    ELSE [c EXCEPT !.pc = "cs_token"]

Invoke(t, op, forceRefresh) ==
    /\ call[t].pc \in {"idle", "done"}
    /\ call' = [call EXCEPT ![t] = Entered(op, forceRefresh)]
    /\ UNCHANGED <<now, storageVars, cacheVars, history>>
    /\ UNCHANGED restVars

GetStatus(t) == \E forceRefresh \in BOOLEAN : Invoke(t, "status", forceRefresh)

CanUseExtension(t) == Invoke(t, "canUse", FALSE)

\* _checkServerStatus: the device token is read (a rejected read gives null);
\* without one it throws and serverStatus is null, else makeWorkerRequest('/check')
\* makes its first attempt
CheckServerToken(t) ==
    LET c == call[t] IN
    /\ c.pc = "cs_token"
    /\ \E works \in LocalOutcomes :
         call' = [call EXCEPT ![t] =
            IF ~works
            THEN [Lost(c, "deviceToken") EXCEPT !.pc = "token"]
            ELSE IF deviceToken = NoToken
            THEN [c EXCEPT !.pc = "token"]
            ELSE [Send(c, "/check") EXCEPT !.pc = "cs_fetch", !.endpoint = "/check",
                                           !.attempt = 1, !.delays = <<>>]]
    /\ UNCHANGED <<now, storageVars, cacheVars, history>>
    /\ UNCHANGED restVars

\* makeWorkerRequest: the timer of the backoff fires and the next attempt is sent
Backoff(t) ==
    LET c == call[t] IN
    /\ c.pc = "mw_backoff"
    /\ call' = [call EXCEPT ![t] =
            [Send(c, c.endpoint) EXCEPT !.attempt = @ + 1,
                !.pc = IF c.endpoint = "/check" THEN "cs_fetch" ELSE "ts_fetch"]]
    /\ UNCHANGED <<now, storageVars, cacheVars, history>>
    /\ UNCHANGED restVars

\* the answer to /check: a 2xx body is written to 'subscription' (a rejected
\* write is rethrown: serverStatus = null); a failure is retried, and after
\* maxRetries thrown (serverStatus = null)
CheckResponse(t) ==
    LET c == call[t] IN
    /\ c.pc = "cs_fetch"
    /\ \E r \in CheckOutcomes :
         LET c1 == [c EXCEPT !.rCheck = r] IN
         /\ IF r.kind = "ok"
            THEN \E works \in LocalOutcomes :
                 IF works
                 THEN /\ subscription' = r.body
                      /\ call' = [call EXCEPT ![t] =
                             [c1 EXCEPT !.data = r.body, !.pc = "cs_stored",
                                        !.wrote = @ \cup {"subscription"}]]
                 ELSE /\ call' = [call EXCEPT ![t] =
                             [Lost(c1, "subscription") EXCEPT !.pc = "token"]]
                      /\ UNCHANGED subscription
            ELSE /\ call' = [call EXCEPT ![t] = RetryOrThrow(c1, "token")]
                 /\ UNCHANGED subscription
         /\ onlyRefusals' = (onlyRefusals /\ ~(r.kind = "ok" /\ r.body.active))
    /\ UNCHANGED <<now, deviceToken, trial, trialEverUsed, sync, cacheVars, approved,
                   trial0>>
    /\ UNCHANGED restVars

\* after the write of 'subscription': an active server status is cached and
\* returned, otherwise the device token is read for the trial lookup
CheckStored(t) ==
    LET c == call[t] IN
    /\ c.pc = "cs_stored"
    /\ ~c.second
    /\ IF ServerSaysActive(c.data)
       THEN Finish(t, c, SubStatus(c.data))
       ELSE /\ call' = [call EXCEPT ![t] = [c EXCEPT !.pc = "token"]]
            /\ UNCHANGED cacheVars
    /\ UNCHANGED <<now, storageVars, history>>
    /\ UNCHANGED restVars

\* `const deviceToken = await this.getDeviceToken()`, then /trial/status
TrialToken(t) ==
    LET c == call[t] IN
    /\ c.pc = "token"
    /\ ~c.second
    /\ \E works \in LocalOutcomes :
         call' = [call EXCEPT ![t] =
            IF ~works
            THEN [Lost(c, "deviceToken") EXCEPT !.token = NoToken, !.pc = "local"]
            ELSE IF deviceToken = NoToken
            THEN [c EXCEPT !.token = deviceToken, !.pc = "local"]
            ELSE [Send(c, "/trial/status") EXCEPT !.token = deviceToken,
                     !.pc = "ts_fetch", !.endpoint = "/trial/status", !.attempt = 1,
                     !.delays = <<>>]]
    /\ UNCHANGED <<now, storageVars, cacheVars, history>>
    /\ UNCHANGED restVars

\* what the Remote Authority said, for the history variables
ReportsTrial(r) == r.kind = "ok" /\ r.body.hasTrial
ConfirmsRegistration(r) == r.kind = "ok" /\ r.body.success
RefusesDevice(r) ==
    r.kind = "ok" /\ ~r.body.allowed /\ r.body.reason = "device_already_used"

\* the answer to /trial/status: a reported trial is written to 'trial' (a
\* rejected write is caught with the failures of the request)
TrialStatusResponse(t) ==
    LET c == call[t] IN
    /\ c.pc = "ts_fetch"
    /\ \E r \in TrialStatusOutcomes :
         LET c1 == [c EXCEPT !.rStatus = r] IN
         /\ IF r.kind = "ok"
            THEN IF r.body.hasTrial
                 THEN \E works \in LocalOutcomes :
                      IF works
                      THEN /\ trial' = RestoredTrial(c.token, r.body)
                           /\ call' = [call EXCEPT ![t] =
                                  [c1 EXCEPT !.pc = "ts_stored",
                                             !.wrote = @ \cup {"trial"}]]
                      ELSE /\ call' = [call EXCEPT ![t] =
                                  [Lost(c1, "trial") EXCEPT !.pc = "local"]]
                           /\ UNCHANGED trial
                 ELSE /\ call' = [call EXCEPT ![t] = [c1 EXCEPT !.pc = "local"]]
                      /\ UNCHANGED trial
            ELSE /\ call' = [call EXCEPT ![t] = RetryOrThrow(c1, "local")]
                 /\ UNCHANGED trial
         /\ approved' = (approved \/ ReportsTrial(r))
         /\ onlyRefusals' = (onlyRefusals /\ ~ReportsTrial(r))
    /\ UNCHANGED <<now, deviceToken, subscription, trialEverUsed, sync, cacheVars, trial0>>
    /\ UNCHANGED restVars

\* after the write of the restored trial: its expiry decides the status
TrialRestored(t) ==
    LET c == call[t] IN
    /\ c.pc = "ts_stored"
    /\ Finish(t, c, ServerTrialStatus(now, c.rStatus.body))
    /\ UNCHANGED <<now, storageVars, history>>
    /\ UNCHANGED restVars

\* mutant: a local trial record counted only while it has not run out
HasLocalTrialWhileValid(localTrial) ==
    localTrial.present /\ DateLt(now, DateParse(localTrial.trialEndsAt))

\* `if (localTrial)`: a stored record, whatever its dates, rules out a new trial
HasLocalTrial(localTrial) == localTrial.present

\* mutant: the stored subscription is not looked at
LocalSubscriptionIgnored(localSubscription) == FALSE

\* `if (localSubscription && localSubscription.active)`
HasActiveLocalSubscription(localSubscription) ==
    localSubscription.present /\ localSubscription.active

\* _getLocalData and what follows it: a local active subscription, the local
\* trial, or the pre-check of a new trial; a rejected read is thrown to the
\* outer catch
LocalData(t) ==
    LET c == call[t]
        localSubscription == subscription
        localTrial == trial
    IN
    /\ c.pc = "local"
    /\ \E works \in LocalOutcomes :
         IF ~works
         THEN Finish(t, Lost(c, "localData"), OuterCatchStatus)
         ELSE IF HasActiveLocalSubscription(localSubscription)
         THEN Finish(t, c, SubStatus(localSubscription))
         ELSE IF HasLocalTrial(localTrial)
         THEN Finish(t, c, LocalTrialStatus(now, localTrial))
         ELSE /\ call' = [call EXCEPT ![t] =
                     IF c.token # NoToken
                     THEN [Send(c, "/trial/check") EXCEPT !.pc = "pre_fetch"]
                     ELSE [c EXCEPT !.pc = "st_token"]]
              /\ UNCHANGED cacheVars
    /\ UNCHANGED <<now, storageVars, history>>
    /\ UNCHANGED restVars

\* the answer to the pre-check: a refusal is final, anything else goes on
\* to startTrial
PreCheckResponse(t) ==
    LET c == call[t] IN
    /\ c.pc = "pre_fetch"
    /\ \E r \in TrialCheckOutcomes :
         LET c1 == [c EXCEPT !.rPre = r] IN
         /\ IF r.kind = "ok" /\ ~r.body.allowed
            THEN Finish(t, c1, PreCheckDenied(r.body))
            ELSE /\ call' = [call EXCEPT ![t] = [c1 EXCEPT !.pc = "st_token"]]
                 /\ UNCHANGED cacheVars
         /\ onlyRefusals' = (onlyRefusals /\ RefusesDevice(r))
    /\ UNCHANGED <<now, storageVars, approved, trial0>>
    /\ UNCHANGED restVars

(***************************************************************************)
(* startTrial, called by getUnifiedSubscriptionStatus; what it throws is   *)
(* turned into a status by the catch around the call.                      *)
(***************************************************************************)
\* the device token is read; without one startTrial throws
StartTrialToken(t) ==
    LET c == call[t] IN
    /\ c.pc = "st_token"
    /\ \E works \in LocalOutcomes :
         IF ~works
         THEN Finish(t, Lost(c, "deviceToken"), TrialErrorStatus(MsgNoToken))
         ELSE IF deviceToken = NoToken
         THEN Finish(t, c, TrialErrorStatus(MsgNoToken))
         ELSE /\ call' = [call EXCEPT ![t] =
                     [Send(c, "/trial/check") EXCEPT !.stToken = deviceToken,
                                                    !.pc = "st_check"]]
              /\ UNCHANGED cacheVars
    /\ UNCHANGED <<now, storageVars, history>>
    /\ UNCHANGED restVars

\* the answer to the mandatory /trial/check: a failure or a refusal throws,
\* an approval computes trialEndsAt and sends /trial/register
StartTrialCheckResponse(t) ==
    LET c == call[t] IN
    /\ c.pc = "st_check"
    /\ \E r \in TrialCheckOutcomes :
         LET c1 == [c EXCEPT !.rSt = r] IN
         /\ IF r.kind # "ok"
            THEN Finish(t, c1, TrialErrorStatus(FetchErrorMessage(r, MsgUnableConnect)))
            ELSE IF ~r.body.allowed
            THEN Finish(t, c1, TrialErrorStatus(DenialMessage(r.body)))
            ELSE /\ call' = [call EXCEPT ![t] =
                        [Send(c1, "/trial/register") EXCEPT
                            !.trialEndsAt = IssuedTrialEnd(now),
                            !.regSent = IssuedTrialEnd(now), !.pc = "st_register"]]
                 /\ UNCHANGED cacheVars
         /\ onlyRefusals' = (onlyRefusals /\ RefusesDevice(r))
    /\ UNCHANGED <<now, storageVars, approved, trial0>>
    /\ UNCHANGED restVars

\* mutant: the success flag of the answer not consulted
RegistrationConfirmedByHttp(r) == r.kind = "ok"

\* may the trial be stored: only after a 2xx answer with success
RegistrationConfirmed(r) == r.kind = "ok" /\ r.body.success

\* the answer to /trial/register: only a confirmed registration writes
\* 'trial' and 'trialEverUsed'; a rejected write is thrown like a failed
\* registration
RegisterResponse(t) ==
    LET c == call[t] IN
    /\ c.pc = "st_register"
    /\ \E r \in RegisterOutcomes :
         LET c1 == [c EXCEPT !.rReg = r] IN
         /\ IF RegistrationConfirmed(r)
            THEN LET trialData ==
                         TrialRecord(c.stToken, c.trialEndsAt, IsoString(now), FALSE) IN
                 \E works \in LocalOutcomes :
                 IF works
                 THEN /\ trial' = trialData
                      /\ trialEverUsed' = TRUE
                      /\ call' = [call EXCEPT ![t] =
                             [c1 EXCEPT !.trialData = trialData, !.pc = "st_stored",
                                        !.wrote = @ \cup {"trial", "trialEverUsed"}]]
                      /\ UNCHANGED cacheVars
                 ELSE /\ Finish(t, Lost(c1, "trial"), TrialErrorStatus(MsgStorage))
                      /\ UNCHANGED <<trial, trialEverUsed>>
            ELSE /\ Finish(t, c1, TrialErrorStatus(
                        IF r.kind # "ok" THEN FetchErrorMessage(r, MsgRegisterHttp)
                        ELSE IF r.body.error # "undefined" THEN r.body.error
                        ELSE MsgRegisterFailed))
                 /\ UNCHANGED <<trial, trialEverUsed>>
         /\ approved' = (approved \/ ConfirmsRegistration(r))
    /\ UNCHANGED <<now, deviceToken, subscription, sync, trial0, onlyRefusals>>
    /\ UNCHANGED restVars

\* after the local write: the best-effort write to chrome.storage.sync,
\* which may reject
StartTrialStored(t) ==
    LET c == call[t] IN
    /\ c.pc = "st_stored"
    /\ \E syncWorks \in BOOLEAN :
         IF syncWorks
         THEN /\ sync' = [persistent_device_token |-> c.stToken,
                          trial_first_used |-> TRUE]
              /\ call' = [call EXCEPT ![t] =
                     [c EXCEPT !.pc = "st_synced", !.wrote = @ \cup {"sync"}]]
         ELSE /\ call' = [call EXCEPT ![t] = [c EXCEPT !.pc = "st_synced"]]
              /\ UNCHANGED sync
    /\ UNCHANGED <<now, deviceToken, subscription, trial, trialEverUsed, cacheVars,
                   history>>
    /\ UNCHANGED restVars

\* startTrial returns its trial record: the status is the issued trial
StartTrialReturned(t) ==
    LET c == call[t] IN
    /\ c.pc = "st_synced"
    /\ Finish(t, c, IssuedTrialStatus(c.trialData))
    /\ UNCHANGED <<now, storageVars, history>>
    /\ UNCHANGED restVars

(***************************************************************************)
(* canUseExtension after its status arrived, clearStatusCache, the clock.  *)
(***************************************************************************)
UsageGate(t) ==
    LET c == call[t] IN
    /\ c.pc = "gate"
    /\ call' = [call EXCEPT ![t] = [c EXCEPT !.gate = UsageDecision(c.ret), !.pc = "done"]]
    /\ UNCHANGED <<now, storageVars, cacheVars, history>>
    /\ UNCHANGED restVars

ClearStatusCache ==
    /\ statusCache' = NullStatus
    /\ cacheTimestamp' = 0
    /\ UNCHANGED <<now, storageVars, call, history>>
    /\ UNCHANGED restVars

Tick ==
    /\ now + TickMs <= MaxNow
    /\ now' = now + TickMs
    /\ UNCHANGED <<storageVars, cacheVars, call, history>>
    /\ UNCHANGED restVars

Next ==
    \/ \E t \in Tasks :
         \/ GetStatus(t)
         \/ CanUseExtension(t)
         \/ CheckServerToken(t)
         \/ Backoff(t)
         \/ CheckResponse(t)
         \/ CheckStored(t)
         \/ TrialToken(t)
         \/ TrialStatusResponse(t)
         \/ TrialRestored(t)
         \/ LocalData(t)
         \/ PreCheckResponse(t)
         \/ StartTrialToken(t)
         \/ StartTrialCheckResponse(t)
         \/ RegisterResponse(t)
         \/ StartTrialStored(t)
         \/ StartTrialReturned(t)
         \/ UsageGate(t)
    \/ ClearStatusCache
    \/ Tick

Spec == Init /\ [][Next]_vars

\* the same service on a chrome.storage.local that may reject any access,
\* observed at one instant (the clock does not advance)
FaultInit == Constructed /\ localFaults = TRUE

FaultNext ==
    \/ \E t \in Tasks :
         \/ GetStatus(t)
         \/ CanUseExtension(t)
         \/ CheckServerToken(t)
         \/ Backoff(t)
         \/ CheckResponse(t)
         \/ CheckStored(t)
         \/ TrialToken(t)
         \/ TrialStatusResponse(t)
         \/ TrialRestored(t)
         \/ LocalData(t)
         \/ PreCheckResponse(t)
         \/ StartTrialToken(t)
         \/ StartTrialCheckResponse(t)
         \/ RegisterResponse(t)
         \/ StartTrialStored(t)
         \/ StartTrialReturned(t)
         \/ UsageGate(t)
    \/ ClearStatusCache

FaultSpec == FaultInit /\ [][FaultNext]_vars

\* the service after an initializeDeviceToken that failed (its write of the
\* token was rejected and the catch at line 72 swallowed it): no token in either tier
NoTokenInit ==
    /\ now = 0
    /\ deviceToken = NoToken
    /\ subscription \in InitialSubscriptions
    /\ trial \in InitialTrials
    /\ trialEverUsed = trial.present
    /\ sync = [persistent_device_token |-> NoToken, trial_first_used |-> FALSE]
    /\ statusCache = NullStatus
    /\ cacheTimestamp = 0
    /\ call = [t \in Tasks |-> IdleCall]
    /\ approved = FALSE
    /\ trial0 = trial
    /\ onlyRefusals = (~trial.present /\ ~(subscription.present /\ subscription.active))
    /\ init = InitReturned(NoToken, NoToken)
    /\ getters = [g \in Getters |-> IdleGetter]
    /\ localFaults = FALSE
    /\ events = NoEvents
    /\ tickInfo = NoTick
    /\ smart = NoPoller
    /\ restore = IdleRestore
    /\ usage = NoUsage
    /\ trackers = [u \in Trackers |-> IdleTracker]
    /\ ledger = NoLedger
    /\ checkoutInfo = NoCheckout

\* the steps a call can take without a token: no request is ever sent
NoTokenNext ==
    \/ \E t \in Tasks :
         \/ GetStatus(t)
         \/ CanUseExtension(t)
         \/ CheckServerToken(t)
         \/ TrialToken(t)
         \/ LocalData(t)
         \/ StartTrialToken(t)
         \/ UsageGate(t)
    \/ ClearStatusCache
    \/ Tick

NoTokenSpec == NoTokenInit /\ [][NoTokenNext]_vars

(***************************************************************************)
(* The device token: initializeDeviceToken, started once by the            *)
(* constructor, and getDeviceToken calls made while it runs or after it.   *)
(* The sync tier may reject a read or a write.                             *)
(***************************************************************************)
\* bound: getDeviceToken calls per caller
MaxGets == 2

reconcilerVars == <<now, subscription, trial, trialEverUsed, cacheVars, call, history,
                    events, tickInfo, pollerVars, usageVars, checkoutInfo>>

\* the local tier answers the read: a token there ends the initialization,
\* otherwise the sync tier is read
InitLocalRead ==
    /\ init.pc = "local_get"
    /\ init' = [init EXCEPT !.pc = IF deviceToken # NoToken THEN "done" ELSE "sync_get"]
    /\ UNCHANGED <<deviceToken, sync, getters, localFaults, reconcilerVars>>

\* mutant: the token of the sync tier not reused
ReusesSyncTokenNever(syncToken) == FALSE

\* `if (syncToken)`: a token read from the sync tier is reused
ReusesSyncToken(syncToken) == syncToken # NoToken

\* the sync tier answers the read or rejects it (syncToken stays null); a token
\* found is reused, otherwise one is generated and written to the sync tier
InitSyncRead ==
    /\ init.pc = "sync_get"
    /\ \E syncWorks \in BOOLEAN :
         LET syncToken == IF syncWorks THEN sync.persistent_device_token ELSE NoToken IN
         init' = IF ReusesSyncToken(syncToken)
                 THEN [init EXCEPT !.syncToken = syncToken, !.deviceToken = syncToken,
                                   !.syncGetThrew = ~syncWorks, !.pc = "local_set"]
                 ELSE [init EXCEPT !.syncToken = syncToken,
                                   !.deviceToken = GeneratedToken,
                                   !.generated = @ + 1,
                                   !.syncGetThrew = ~syncWorks, !.pc = "sync_set"]
    /\ UNCHANGED <<deviceToken, sync, getters, localFaults, reconcilerVars>>

\* the write of the generated token to the sync tier, which may reject
InitSyncWrite ==
    /\ init.pc = "sync_set"
    /\ \E syncWorks \in BOOLEAN :
         /\ sync' = IF syncWorks
                    THEN [sync EXCEPT !.persistent_device_token = init.deviceToken]
                    ELSE sync
         /\ init' = [init EXCEPT !.syncSetThrew = ~syncWorks, !.pc = "local_set"]
    /\ UNCHANGED <<deviceToken, getters, localFaults, reconcilerVars>>

\* the token is stored in the local tier and the initialization returns
InitLocalWrite ==
    /\ init.pc = "local_set"
    /\ deviceToken' = init.deviceToken
    /\ init' = [init EXCEPT !.pc = "done"]
    /\ UNCHANGED <<sync, getters, localFaults, reconcilerVars>>

\* mutant: the initialization not awaited
InitSettledNotAwaited == TRUE

\* has this.initPromise settled
InitSettled == init.pc = "done"

\* getDeviceToken is called: this.initPromise is set, so the call awaits it
GetDeviceToken(g) ==
    /\ getters[g].pc \in {"idle", "done"}
    /\ getters[g].calls < MaxGets
    /\ getters' = [getters EXCEPT ![g] =
            [pc |-> "await_init", result |-> NoToken, calls |-> getters[g].calls + 1,
             early |-> init.pc # "done"]]
    /\ UNCHANGED <<deviceToken, sync, init, localFaults, reconcilerVars>>

\* the awaited initialization has settled: the call goes on to read the local tier
GetterResumes(g) ==
    /\ getters[g].pc = "await_init"
    /\ InitSettled
    /\ getters' = [getters EXCEPT ![g].pc = "local_get"]
    /\ UNCHANGED <<deviceToken, sync, init, localFaults, reconcilerVars>>

\* the local tier answers: the call returns what is stored under 'deviceToken'
GetterReads(g) ==
    /\ getters[g].pc = "local_get"
    /\ getters' = [getters EXCEPT ![g].pc = "done", ![g].result = deviceToken]
    /\ UNCHANGED <<deviceToken, sync, init, localFaults, reconcilerVars>>

\* a service just constructed: any content of the two tiers, no caller yet
TokenInit ==
    /\ now = 0
    /\ deviceToken \in {NoToken, Token}
    /\ \E s \in {NoToken, SyncedToken} :
         /\ sync = [persistent_device_token |-> s, trial_first_used |-> FALSE]
         /\ init = InitStarted(deviceToken, s)
    /\ subscription = NoSub
    /\ trial = NoTrial
    /\ trialEverUsed = FALSE
    /\ statusCache = NullStatus
    /\ cacheTimestamp = 0
    /\ call = [t \in Tasks |-> IdleCall]
    /\ approved = FALSE
    /\ trial0 = NoTrial
    /\ onlyRefusals = TRUE
    /\ getters = [g \in Getters |-> IdleGetter]
    /\ localFaults = FALSE
    /\ events = NoEvents
    /\ tickInfo = NoTick
    /\ smart = NoPoller
    /\ restore = IdleRestore
    /\ usage = NoUsage
    /\ trackers = [u \in Trackers |-> IdleTracker]
    /\ ledger = NoLedger
    /\ checkoutInfo = NoCheckout

TokenNext ==
    \/ InitLocalRead
    \/ InitSyncRead
    \/ InitSyncWrite
    \/ InitLocalWrite
    \/ \E g \in Getters :
         \/ GetDeviceToken(g)
         \/ GetterResumes(g)
         \/ GetterReads(g)

TokenSpec == TokenInit /\ [][TokenNext]_vars

(***************************************************************************)
(* The periodic check: the callback startPeriodicSubscriptionCheck hands   *)
(* to setInterval.  A tick runs getUnifiedSubscriptionStatus as any caller *)
(* does; when the status is not active it calls _checkServerStatus itself. *)
(* The task runs one call at a time: a tick, or a call made by a user.     *)
(***************************************************************************)
\* the 60 s timer fires: `await this.getUnifiedSubscriptionStatus()`
PeriodicTick(t) ==
    /\ call[t].pc \in {"idle", "done"}
    /\ call' = [call EXCEPT ![t] = Entered("periodic", FALSE)]
    /\ tickInfo' = [activeAtStart |->
                        \/ subscription.present /\ subscription.active
                        \/ statusCache.active,
                    hit |-> FALSE, first |-> NoResp, cleared |-> FALSE]
    /\ events' = [events EXCEPT !["periodic"] = 0]
    /\ UNCHANGED <<now, storageVars, cacheVars, history, init, getters, localFaults, usageVars, checkoutInfo,
                   pollerVars>>

\* `if (!currentStatus.active)` negated: an active status ends the tick
SkipsRecheck(currentStatus) == currentStatus.active

\* the status is there: unless it is active, `await this._checkServerStatus()`
PeriodicRecheck(t) ==
    LET c == call[t] IN
    /\ c.pc = "recheck"
    /\ call' = [call EXCEPT ![t] =
            IF SkipsRecheck(c.ret)
            THEN [c EXCEPT !.pc = "done"]
            ELSE [c EXCEPT !.second = TRUE, !.pc = "cs_token"]]
    /\ tickInfo' = [tickInfo EXCEPT !.hit = c.hit, !.first = c.rCheck]
    /\ UNCHANGED <<now, storageVars, cacheVars, history, init, getters, localFaults, usageVars, checkoutInfo,
                   events, pollerVars>>

\* the poller's own _checkServerStatus has returned the /check body: when it is
\* active, the periodic check clears the cache, and SUBSCRIPTION_ACTIVATED is
\* sent (checkForInstantActivation cleared the cache before the check)
RecheckStored(t) ==
    LET c == call[t] IN
    /\ c.pc = "cs_stored"
    /\ c.second
    /\ call' = [call EXCEPT ![t] = [c EXCEPT !.pc = "done"]]
    /\ IF c.data.active
       THEN /\ events' = [events EXCEPT ![c.op] = @ + 1]
            /\ IF c.op = "periodic"
               THEN /\ statusCache' = NullStatus
                    /\ cacheTimestamp' = 0
                    /\ tickInfo' = [tickInfo EXCEPT !.cleared = TRUE]
               ELSE UNCHANGED <<cacheVars, tickInfo>>
       ELSE UNCHANGED <<cacheVars, tickInfo, events>>
    /\ UNCHANGED <<now, storageVars, history, init, getters, localFaults, usageVars, checkoutInfo, pollerVars>>

\* the poller's own _checkServerStatus threw (no token, or /check failed
\* maxRetries times, or the write was rejected): caught and logged
RecheckThrown(t) ==
    LET c == call[t] IN
    /\ c.pc = "token"
    /\ c.second
    /\ call' = [call EXCEPT ![t] = [c EXCEPT !.pc = "done"]]
    /\ UNCHANGED <<now, storageVars, cacheVars, history>>
    /\ UNCHANGED restVars

PeriodicNext ==
    \/ \E t \in Tasks :
         \/ PeriodicTick(t)
         \/ PeriodicRecheck(t)
         \/ RecheckStored(t)
         \/ RecheckThrown(t)
         \/ GetStatus(t)
         \/ CheckServerToken(t)
         \/ Backoff(t)
         \/ CheckResponse(t)
         \/ CheckStored(t)
         \/ TrialToken(t)
         \/ TrialStatusResponse(t)
         \/ TrialRestored(t)
         \/ LocalData(t)
         \/ PreCheckResponse(t)
         \/ StartTrialToken(t)
         \/ StartTrialCheckResponse(t)
         \/ RegisterResponse(t)
         \/ StartTrialStored(t)
         \/ StartTrialReturned(t)
    \/ ClearStatusCache

\* the service with its periodic check, observed at one instant: the cached
\* status stays fresh until it is cleared
PeriodicSpec == Init /\ [][PeriodicNext]_vars

(***************************************************************************)
(* After a checkout: startSmartSubscriptionCheck, that is                  *)
(* checkForInstantActivation and the notification poller, and              *)
(* restorePurchase.  The callbacks of the poller's interval are async: the *)
(* timer fires every 3 s whether or not the earlier callbacks have         *)
(* returned, so several can await their answer at once.                    *)
(***************************************************************************)
maxNotificationChecks == 40
\* callbacks of one interval that are in flight together
MaxInFlight == 2

\* GET /notifications?token=
NotificationBodies ==
    {[hasNotification |-> FALSE, subscription |-> NoSub],
     [hasNotification |-> TRUE, subscription |-> SubRecord(TRUE, "pro-monthly")]}

\* startSmartSubscriptionCheck: checkForInstantActivation clears the cache and
\* awaits _checkServerStatus; the counter is set to 0 and the interval is set
StartSmartSubscriptionCheck(t) ==
    /\ smart.interval \in {"off", "cleared"}
    /\ smart.waiting = 0 /\ smart.storing = 0
    /\ call[t].pc \in {"idle", "done"}
    /\ statusCache' = NullStatus
    /\ cacheTimestamp' = 0
    /\ call' = [call EXCEPT ![t] =
            [NewCall("instant", FALSE) EXCEPT !.second = TRUE, !.pc = "cs_token"]]
    /\ smart' = [NoPoller EXCEPT !.interval = "on"]
    /\ events' = [events EXCEPT !["instant"] = 0, !["poller"] = 0]
    /\ UNCHANGED <<now, storageVars, history, init, getters, localFaults, usageVars, checkoutInfo, tickInfo,
                   restore>>

\* `if (notificationCheckCount >= maxNotificationChecks) clearInterval(...)`,
\* reached after the answer (826) or in the catch (831)
Stopped(interval, count) ==
    IF count >= maxNotificationChecks THEN "cleared" ELSE interval

\* the 3 s timer fires: notificationCheckCount++, and
\* checkForActivationNotification reads the token and fetches /notifications
\* (without a token it returns null at once)
PollTick ==
    /\ smart.interval = "on"
    /\ smart.waiting + smart.storing < MaxInFlight
    /\ smart' = IF deviceToken = NoToken
                THEN [smart EXCEPT !.count = @ + 1,
                                   !.interval = Stopped(@, smart.count + 1)]
                ELSE [smart EXCEPT !.count = @ + 1, !.waiting = @ + 1]
    /\ UNCHANGED <<now, storageVars, cacheVars, call, history, init, getters,
                   localFaults, usageVars, checkoutInfo, events, tickInfo, restore>>

\* the answer to /notifications: on hasNotification the interval is cleared and
\* notification.subscription is written to 'subscription'; on anything else
\* (null for a failure) the counter is tested
NotificationResponse ==
    /\ smart.waiting > 0
    /\ \E r \in Failures \cup {Ok(b) : b \in NotificationBodies} :
         IF r.kind = "ok" /\ r.body.hasNotification
         THEN /\ smart' = [smart EXCEPT !.interval = "cleared", !.waiting = @ - 1,
                                        !.storing = @ + 1, !.hits = @ + 1]
              /\ subscription' = r.body.subscription
         ELSE /\ smart' = [smart EXCEPT !.interval = Stopped(@, smart.count),
                                        !.waiting = @ - 1]
              /\ UNCHANGED subscription
    /\ UNCHANGED <<now, deviceToken, trial, trialEverUsed, sync, cacheVars, call,
                   history, init, getters, localFaults, usageVars, checkoutInfo, events, tickInfo, restore>>

\* after the write: clearStatusCache, notifySubscriptionActivated, return
NotificationStored ==
    /\ smart.storing > 0
    /\ smart' = [smart EXCEPT !.storing = @ - 1]
    /\ statusCache' = NullStatus
    /\ cacheTimestamp' = 0
    /\ events' = [events EXCEPT !["poller"] = @ + 1]
    /\ UNCHANGED <<now, storageVars, call, history, init, getters, localFaults, usageVars, checkoutInfo,
                   tickInfo, restore>>

\* restorePurchase(email): GET /restore
RestorePurchase ==
    /\ restore.pc \in {"idle", "done"}
    /\ restore' = [IdleRestore EXCEPT !.pc = "r_fetch"]
    /\ UNCHANGED <<now, storageVars, cacheVars, call, history, init, getters,
                   localFaults, usageVars, checkoutInfo, events, tickInfo, smart>>

\* the answer to /restore: a failure is thrown, inactive data is returned, for
\* active data the token is read and POST /link is sent
RestoreResponse ==
    /\ restore.pc = "r_fetch"
    /\ \E r \in Failures \cup {Ok(b) : b \in CheckBodies} :
         restore' = IF r.kind = "ok" /\ r.body.active
                    THEN [restore EXCEPT !.pc = "r_link", !.data = r.body]
                    ELSE [restore EXCEPT !.pc = "done"]
    /\ UNCHANGED <<now, storageVars, cacheVars, call, history, init, getters,
                   localFaults, usageVars, checkoutInfo, events, tickInfo, smart>>

\* the answer to /link: a rejected fetch is rethrown; any response, 2xx or not,
\* lets the data be written to 'subscription'
RestoreLinked ==
    /\ restore.pc = "r_link"
    /\ \E r \in Failures \cup {Ok(NoBody)} :
         IF r.kind = "throw"
         THEN /\ restore' = [restore EXCEPT !.pc = "done", !.rLink = r]
              /\ UNCHANGED subscription
         ELSE /\ restore' = [restore EXCEPT !.pc = "r_store", !.rLink = r]
              /\ subscription' = restore.data
    /\ UNCHANGED <<now, deviceToken, trial, trialEverUsed, sync, cacheVars, call,
                   history, init, getters, localFaults, usageVars, checkoutInfo, events, tickInfo, smart>>

\* after the write: clearStatusCache, `return data`
RestoreStored ==
    /\ restore.pc = "r_store"
    /\ restore' = [restore EXCEPT !.pc = "done", !.wrote = TRUE,
            !.crossing = {t \in Tasks : call[t].pc \in
                {"pre_fetch", "st_token", "st_check", "st_register", "st_stored",
                 "st_synced"}}]
    /\ statusCache' = NullStatus
    /\ cacheTimestamp' = 0
    /\ UNCHANGED <<now, storageVars, call, history, init, getters, localFaults, usageVars, checkoutInfo,
                   events, tickInfo, smart>>

\* a device without subscription or trial, as after a checkout was opened
ActivationInit ==
    /\ Init
    /\ subscription = NoSub
    /\ trial = NoTrial

ActivationNext ==
    \/ \E t \in Tasks :
         \/ StartSmartSubscriptionCheck(t)
         \/ CheckServerToken(t)
         \/ Backoff(t)
         \/ CheckResponse(t)
         \/ RecheckStored(t)
         \/ RecheckThrown(t)
    \/ PollTick
    \/ NotificationResponse
    \/ NotificationStored
    \/ RestorePurchase
    \/ RestoreResponse
    \/ RestoreLinked
    \/ RestoreStored

ActivationSpec == ActivationInit /\ [][ActivationNext]_vars

(***************************************************************************)
(* restorePurchase running beside the status calls of the popup, observed  *)
(* at one instant: a cached status stays fresh until restorePurchase       *)
(* clears it.                                                              *)
(***************************************************************************)
RestoreNext ==
    \/ \E t \in Tasks :
         \/ Invoke(t, "status", FALSE)
         \/ CheckServerToken(t)
         \/ Backoff(t)
         \/ CheckResponse(t)
         \/ CheckStored(t)
         \/ TrialToken(t)
         \/ TrialStatusResponse(t)
         \/ TrialRestored(t)
         \/ LocalData(t)
         \/ PreCheckResponse(t)
         \/ StartTrialToken(t)
         \/ StartTrialCheckResponse(t)
         \/ RegisterResponse(t)
         \/ StartTrialStored(t)
         \/ StartTrialReturned(t)
    \/ RestorePurchase
    \/ RestoreResponse
    \/ RestoreLinked
    \/ RestoreStored

RestoreSpec == ActivationInit /\ [][RestoreNext]_vars

(***************************************************************************)
(* The background script after an installation: initializeBackground and   *)
(* the onInstalled listener each call getUnifiedSubscriptionStatus(true)   *)
(* without awaiting the other, on a device without records.  The Remote    *)
(* Authority answers every request and allows a trial once for the device: *)
(* `approved` is what it has registered.                                   *)
(***************************************************************************)
Starters == {"initializeBackground", "onInstalled"}

InstallInit ==
    /\ now = 0
    /\ deviceToken = Token
    /\ subscription = NoSub
    /\ trial = NoTrial
    /\ trialEverUsed = FALSE
    /\ sync = [persistent_device_token |-> Token, trial_first_used |-> FALSE]
    /\ statusCache = NullStatus
    /\ cacheTimestamp = 0
    /\ call = [t \in Starters |-> IdleCall]
    /\ approved = FALSE
    /\ trial0 = NoTrial
    /\ onlyRefusals = TRUE
    /\ init = InitReturned(Token, Token)
    /\ getters = [g \in Getters |-> IdleGetter]
    /\ localFaults = FALSE
    /\ events = NoEvents
    /\ tickInfo = NoTick
    /\ smart = NoPoller
    /\ restore = IdleRestore
    /\ usage = NoUsage
    /\ trackers = [u \in Trackers |-> IdleTracker]
    /\ ledger = NoLedger
    /\ checkoutInfo = NoCheckout

\* the one call each of them makes
StartupStatus(t) ==
    /\ call[t].pc = "idle"
    /\ Invoke(t, "status", TRUE)

\* /trial/check allows a trial until one is registered
AllowsOnce(r) ==
    IF approved
    THEN r = Ok([allowed |-> FALSE, reason |-> "device_already_used",
                 message |-> "undefined"])
    ELSE r.kind = "ok" /\ r.body.allowed

\* /check: the device has never paid
InstallCheckResponse(t) ==
    CheckResponse(t) /\ call'[t].rCheck = Ok(SubRecord(FALSE, "undefined"))

\* /trial/status reports the trial once one is registered
InstallTrialStatusResponse(t) ==
    /\ TrialStatusResponse(t)
    /\ LET r == call'[t].rStatus IN
       /\ r.kind = "ok"
       /\ r.body.hasTrial = approved
       /\ r.body.hasTrial => r.body.trialEndsAt = IsoString(ServerTrialEnd)

InstallPreCheckResponse(t) == PreCheckResponse(t) /\ AllowsOnce(call'[t].rPre)

InstallStartTrialCheckResponse(t) ==
    StartTrialCheckResponse(t) /\ AllowsOnce(call'[t].rSt)

\* /trial/register registers the first trial of the device and refuses the next
InstallRegisterResponse(t) ==
    /\ RegisterResponse(t)
    /\ LET r == call'[t].rReg IN
       IF approved
       THEN r = Ok([success |-> FALSE, error |-> SrvRegError])
       ELSE r.kind = "ok" /\ r.body.success

InstallNext ==
    \E t \in Starters :
        \/ StartupStatus(t)
        \/ CheckServerToken(t)
        \/ InstallCheckResponse(t)
        \/ CheckStored(t)
        \/ TrialToken(t)
        \/ InstallTrialStatusResponse(t)
        \/ TrialRestored(t)
        \/ LocalData(t)
        \/ InstallPreCheckResponse(t)
        \/ StartTrialToken(t)
        \/ InstallStartTrialCheckResponse(t)
        \/ InstallRegisterResponse(t)
        \/ StartTrialStored(t)
        \/ StartTrialReturned(t)

InstallSpec == InstallInit /\ [][InstallNext]_vars

(***************************************************************************)
(* generateCheckoutUrl, as one more call the task can make between its     *)
(* status calls.                                                           *)
(***************************************************************************)
\* generateCheckoutUrl(email, plan) is called: `await this.getDeviceToken()`
GenerateCheckoutUrl(t) ==
    /\ call[t].pc \in {"idle", "done"}
    /\ call' = [call EXCEPT ![t] = [NewCall("checkout", FALSE) EXCEPT !.pc = "co_token"]]
    /\ checkoutInfo' = [subscription |-> subscription, statusCache |-> statusCache,
                        threw |-> FALSE]
    /\ UNCHANGED <<now, storageVars, cacheVars, history, init, getters, localFaults,
                   events, tickInfo, pollerVars, usageVars>>

\* mutant: the checkout goes on without a token
ThrowsWithoutTokenNever(tok) == FALSE

\* `if (!deviceToken) throw new Error('No device token available for checkout')`
ThrowsWithoutToken(tok) == tok = NoToken

\* the token is there or not: without it the call throws, with it
\* chrome.storage.local.remove(['subscription']) is awaited
CheckoutToken(t) ==
    LET c == call[t] IN
    /\ c.pc = "co_token"
    /\ IF ThrowsWithoutToken(deviceToken)
       THEN /\ call' = [call EXCEPT ![t] = [c EXCEPT !.pc = "done"]]
            /\ checkoutInfo' = [checkoutInfo EXCEPT !.threw = TRUE]
            /\ UNCHANGED subscription
       ELSE /\ call' = [call EXCEPT ![t] =
                   [c EXCEPT !.token = deviceToken, !.pc = "co_removed"]]
            /\ subscription' = NoSub
            /\ UNCHANGED checkoutInfo
    /\ UNCHANGED <<now, deviceToken, trial, trialEverUsed, sync, cacheVars, history,
                   init, getters, localFaults, events, tickInfo, pollerVars, usageVars>>

\* after the removal: clearStatusCache, and the URL is built and returned
CheckoutRemoved(t) ==
    LET c == call[t] IN
    /\ c.pc = "co_removed"
    /\ call' = [call EXCEPT ![t] = [c EXCEPT !.pc = "done"]]
    /\ statusCache' = NullStatus
    /\ cacheTimestamp' = 0
    /\ UNCHANGED <<now, storageVars, history>>
    /\ UNCHANGED restVars

\* the service with or without a device token
CheckoutInit == Init \/ NoTokenInit

CheckoutNext ==
    \/ \E t \in Tasks :
         \/ GenerateCheckoutUrl(t)
         \/ CheckoutToken(t)
         \/ CheckoutRemoved(t)
         \/ GetStatus(t)
         \/ CheckServerToken(t)
         \/ Backoff(t)
         \/ CheckResponse(t)
         \/ CheckStored(t)
         \/ TrialToken(t)
         \/ TrialStatusResponse(t)
         \/ TrialRestored(t)
         \/ LocalData(t)
         \/ PreCheckResponse(t)
         \/ StartTrialToken(t)
         \/ StartTrialCheckResponse(t)
         \/ RegisterResponse(t)
         \/ StartTrialStored(t)
         \/ StartTrialReturned(t)
    \/ ClearStatusCache

CheckoutSpec == CheckoutInit /\ [][CheckoutNext]_vars

(***************************************************************************)
(* The usage ledger: trackUsage reads 'usage', adds the action to the      *)
(* object it read and writes the object back.  Calls made for concurrent   *)
(* summarization requests interleave at their awaits.  An entry carries    *)
(* the ordinal of its call, a history tag that tells the entries apart.    *)
(***************************************************************************)
maxActions == 100
\* trackUsage calls of a run, and how many of them begin while another is running
MaxCalls == 102
MaxOverlaps == 1

\* the actions content.js tracks, by the ordinal of the call
ActionOf(id) == IF id % 2 = 1 THEN "summarization" ELSE "context_menu_summarization"

\* mutant: the oldest entries kept
KeepFirst(actions) ==
    IF Len(actions) > maxActions THEN SubSeq(actions, 1, maxActions) ELSE actions

\* `if (usage.actions.length > 100) usage.actions = usage.actions.slice(-100)`
KeepLast(actions) ==
    IF Len(actions) > maxActions
    THEN SubSeq(actions, Len(actions) - maxActions + 1, Len(actions))
    ELSE actions

\* trackUsage(action) is called: chrome.storage.local.get(['usage']) is issued
TrackUsage(u) ==
    LET running == \E v \in Trackers : trackers[v].pc # "idle" IN
    /\ trackers[u].pc = "idle"
    /\ ledger.started < MaxCalls
    /\ running => ledger.overlaps < MaxOverlaps
    /\ trackers' = [trackers EXCEPT ![u] =
            [pc |-> "get", usage |-> NoUsage, id |-> ledger.started + 1]]
    /\ ledger' = [ledger EXCEPT !.started = @ + 1,
                                !.overlaps = IF running THEN @ + 1 ELSE @]
    /\ UNCHANGED <<now, storageVars, cacheVars, call, history, init, getters,
                   localFaults, events, tickInfo, pollerVars, checkoutInfo, usage>>

\* the read is served: `result[this.USAGE_KEY] || { count: 0, actions: [] }`
TrackRead(u) ==
    /\ trackers[u].pc = "get"
    /\ trackers' = [trackers EXCEPT ![u].pc = "have", ![u].usage = usage]
    /\ UNCHANGED <<now, storageVars, cacheVars, call, history, init, getters,
                   localFaults, events, tickInfo, pollerVars, checkoutInfo, usage, ledger>>

\* the call resumes with what it read: count += 1, the action is pushed, the
\* list is cut to its last maxActions entries, and the object is written
TrackWrite(u) ==
    LET read == trackers[u].usage
        entry == [action |-> ActionOf(trackers[u].id), timestamp |-> IsoString(now),
                  call |-> trackers[u].id]
    IN
    /\ trackers[u].pc = "have"
    /\ usage' = [present |-> TRUE, count |-> read.count + 1,
                 actions |-> KeepLast(Append(read.actions, entry))]
    /\ trackers' = [trackers EXCEPT ![u].pc = "set"]
    /\ UNCHANGED <<now, storageVars, cacheVars, call, history, init, getters,
                   localFaults, events, tickInfo, pollerVars, checkoutInfo, ledger>>

\* the write has resolved: trackUsageAnalytics is started and not awaited,
\* and trackUsage returns
TrackStored(u) ==
    /\ trackers[u].pc = "set"
    /\ trackers' = [trackers EXCEPT ![u] = IdleTracker]
    /\ ledger' = [ledger EXCEPT !.completed = @ + 1]
    /\ UNCHANGED <<now, storageVars, cacheVars, call, history, init, getters,
                   localFaults, events, tickInfo, pollerVars, checkoutInfo, usage>>

UsageNext ==
    \E u \in Trackers :
        \/ TrackUsage(u)
        \/ TrackRead(u)
        \/ TrackWrite(u)
        \/ TrackStored(u)

\* a device that holds a subscription record and a trial record
UsageInit ==
    /\ Init
    /\ subscription.present
    /\ trial.present

UsageSpec == UsageInit /\ [][UsageNext]_vars

(***************************************************************************)
(* Properties.                                                             *)
(***************************************************************************)
\* the call has its status (canUseExtension may still have to decide)
Returned(c) == c.pc \in {"gate", "done"}
Failed(r) == r.kind \in {"throw", "http_error"}
Refused(r) == r.kind = "ok" /\ ~r.body.allowed
CheckActive(r) == r.kind = "ok" /\ r.body.active
CorruptTrial(rec) == rec.present /\ IsNaN(DateParse(rec.trialEndsAt))
LocallyActive == subscription.present /\ subscription.active
OnlySent(c, endpoints) == \A e \in Endpoints \ endpoints : c.sent[e] = 0

\* startTrial ended in a throw: its /trial/check or its /trial/register failed or refused
StartTrialThrew(c) ==
    \/ Failed(c.rSt)
    \/ Refused(c.rSt)
    \/ Failed(c.rReg)
    \/ (c.rReg.kind = "ok" /\ ~c.rReg.body.success)

\* C1: a TrialRecord is in local storage only if the Remote Authority approved it
\* for this token before (a confirmed /trial/register or a /trial/status with
\* hasTrial) or it was there when the session began; and a startTrial whose
\* /trial/check or /trial/register failed or refused has written nothing to
\* local or sync storage.
TrialOnlyIfApproved ==
    /\ trial.present => (approved \/ trial = trial0)
    /\ \A t \in Tasks :
         LET c == call[t] IN
         (Returned(c) /\ StartTrialThrew(c)) =>
            /\ c.wrote \cap {"trial", "trialEverUsed", "sync"} = {}
            /\ ~trial.present
            /\ ~trialEverUsed
            /\ ~sync.trial_first_used

\* C1, witness: a trial record written in this session after /trial/register
\* answered success
TrialWrittenAfterRegistration ==
    \E t \in Tasks :
        /\ ConfirmsRegistration(call[t].rReg)
        /\ trial.present /\ trial # trial0 /\ trial = call[t].trialData

IsTrialDenied(status) ==
    status.plan = "trial_denied" /\ ~status.isTrialing /\ ~status.active

\* C2: a call in which /trial/check answered {allowed: false, reason:
\* 'device_already_used'} (in the pre-check or in startTrial) returns plan
\* 'trial_denied', not trialing, not active, has sent no /trial/register and has
\* written no TrialRecord; and while the Remote Authority only ever refuses a
\* blank device, every call, served from the cache or not, returns 'trial_denied'.
DenialFinality ==
    \A t \in Tasks :
        LET c == call[t] IN
        /\ (Returned(c) /\ (RefusesDevice(c.rPre) \/ RefusesDevice(c.rSt))) =>
              /\ IsTrialDenied(c.ret)
              /\ c.sent["/trial/register"] = 0
              /\ "trial" \notin c.wrote
              /\ ~trial.present
        /\ (Returned(c) /\ onlyRefusals) =>
              /\ IsTrialDenied(c.ret)
              /\ ~trial.present

\* C2, witness: a repeated call served from the cache after a refusal
DenialServedAgain ==
    \E t \in Tasks :
        /\ call[t].pc = "done" /\ call[t].hit
        /\ onlyRefusals
        /\ call[t].ret.plan = "trial_denied"

\* C3: a call whose /check answered active = true returns that subscription, for
\* every local trial and subscription record, without a /trial/status,
\* /trial/check or /trial/register request; and the step that returns it caches it.
MonotonicOverride ==
    /\ [](\A t \in Tasks :
            LET c == call[t] IN
            (Returned(c) /\ CheckActive(c.rCheck)) =>
                /\ c.ret = SubStatus(c.rCheck.body)
                /\ c.ret.active
                /\ OnlySent(c, {"/check"}))
    /\ [][\A t \in Tasks :
            (call[t].pc = "cs_stored" /\ Returned(call'[t])) =>
                /\ statusCache' = call'[t].ret
                /\ cacheTimestamp' = now]_vars

\* C3, witness: the server's subscription returned over a local trial that expired
ActiveOverExpiredTrial ==
    \E t \in Tasks :
        /\ call[t].pc = "done" /\ CheckActive(call[t].rCheck)
        /\ call[t].ret.active
        /\ trial.present
        /\ LocalTrialStatus(now, trial).plan = "trial_expired"

\* every remote call of the call was rejected by the network
AllRemoteThrew(c) ==
    /\ c.rCheck.kind = "throw"
    /\ c.rStatus.kind = "throw"
    /\ c.rPre.kind = "throw"
    /\ c.rSt.kind = "throw"

\* C4: when every remote call fails with a network error and local storage holds
\* neither a TrialRecord nor a SubscriptionRecord, the status has plan 'error'
\* and canUseExtension returns {canUse: true, reason: 'trial_fallback'}.
FailOpenForNewUser ==
    \A t \in Tasks :
        LET c == call[t] IN
        (/\ c.pc = "done" /\ c.op = "canUse"
         /\ AllRemoteThrew(c)
         /\ ~trial.present /\ ~subscription.present) =>
            /\ c.ret.plan = "error"
            /\ c.gate.canUse
            /\ c.gate.reason = "trial_fallback"

\* C5: canUseExtension answers a 'trial_denied' status with canUse = false and
\* reason 'trial_denied', and gives the reason 'trial_expired' only for a
\* 'trial_expired' status.
GateReasonFollowsStatus ==
    \A t \in Tasks :
        LET c == call[t] IN
        (c.pc = "done" /\ c.op = "canUse") =>
            /\ c.ret.plan = "trial_denied" =>
                  (~c.gate.canUse /\ c.gate.reason = "trial_denied")
            /\ c.gate.reason = "trial_expired" => c.ret.plan = "trial_expired"

\* C6: canUseExtension allows with reason 'subscription' when the status is
\* active, with reason 'trial' when it is not active and trialing, and hands
\* back the status getUnifiedSubscriptionStatus returned.
UsageGateAllows ==
    \A t \in Tasks :
        LET c == call[t] IN
        (c.pc = "done" /\ c.op = "canUse") =>
            /\ c.ret.active => c.gate = Decision(TRUE, "subscription", c.ret)
            /\ (~c.ret.active /\ c.ret.isTrialing) => c.gate = Decision(TRUE, "trial", c.ret)
            /\ c.gate.status = c.ret

\* C6, witness: /check answered {active: true, plan: 'pro-monthly'} and the gate
\* allowed for the subscription
AllowedBySubscription ==
    \E t \in Tasks :
        /\ call[t].pc = "done" /\ call[t].op = "canUse"
        /\ call[t].rCheck = Ok(SubRecord(TRUE, "pro-monthly"))
        /\ call[t].gate.canUse /\ call[t].gate.reason = "subscription"

\* the step is the invocation of an operation by task t
Invoked(t) == call[t].pc \in {"idle", "done"} /\ call'[t] # call[t]
\* the step is the one in which the running call of task t gets its status
Returns(t) == call[t].pc \notin {"idle", "gate", "done"} /\ Returned(call'[t])

\* C7: while a status is cached (a call cached it and clearStatusCache has not
\* run since) and it is younger than CACHE_DURATION, a call without
\* forceRefresh returns that very status at once, with no request sent and
\* no storage touched.
CacheLaw ==
    [][\A t \in Tasks :
        (/\ Invoked(t) /\ ~call'[t].forceRefresh
         /\ statusCache # NullStatus
         /\ now - cacheTimestamp < CACHE_DURATION) =>
            /\ Returned(call'[t])
            /\ call'[t].ret = statusCache
            /\ call'[t].sent = NoCounts
            /\ call'[t].wrote = {}
            /\ UNCHANGED <<storageVars, cacheVars>>]_vars

\* C7, witness: a call served from a cache that is two ticks old
ServedFromCache ==
    \E t \in Tasks :
        /\ call[t].pc = "done" /\ call[t].hit /\ ~call[t].forceRefresh
        /\ call[t].ret = statusCache
        /\ now - cacheTimestamp = 2 * TickMs

\* C8: a call with forceRefresh is never served from the cache: it sends /check
\* before it returns (a device token exists), and the step in which it returns
\* replaces the cache by the status it derived.
ForceRefreshBypassesCache ==
    /\ [](\A t \in Tasks :
            LET c == call[t] IN
            (c.pc # "idle" /\ c.forceRefresh) =>
                /\ ~c.hit
                /\ Returned(c) => c.sent["/check"] >= 1)
    /\ [][\A t \in Tasks :
            (Returns(t) /\ call'[t].forceRefresh) =>
                /\ statusCache' = call'[t].ret
                /\ cacheTimestamp' = now]_vars

\* C8, witness: a forced call has sent /check although a fresh status is cached
ForcedPastFreshCache ==
    \E t \in Tasks :
        /\ call[t].forceRefresh /\ call[t].pc = "cs_fetch"
        /\ statusCache # NullStatus
        /\ now - cacheTimestamp < CACHE_DURATION

\* C9: a trial evaluated (from the record /trial/status restored or from the
\* local record) at an instant now has plan 'trial' exactly when now is
\* strictly before trialEndsAt; at now = trialEndsAt it is 'trial_expired' and
\* not trialing.
ExpiryBoundary ==
    [][\A t \in Tasks :
        (/\ call[t].pc \in {"ts_stored", "local"}
         /\ Returned(call'[t])
         /\ call'[t].ret.shape = "status") =>
            LET status == call'[t].ret
                evaluated == IF call[t].pc = "ts_stored"
                             THEN call[t].rStatus.body.trialEndsAt
                             ELSE trial.trialEndsAt
                trialEnd == DateParse(evaluated)
            IN
            /\ status.trialEndsAt = evaluated
            /\ status.plan \in {"trial", "trial_expired"}
            /\ status.plan = "trial" <=> (trialEnd.valid /\ now < trialEnd.t)
            /\ status.isTrialing <=> status.plan = "trial"
            /\ (trialEnd.valid /\ now = trialEnd.t) =>
                  (status.plan = "trial_expired" /\ ~status.isTrialing)]_vars

\* C9, witness: a status derived at the very instant its trial ends
ExpiredAtTheBoundary ==
    \E t \in Tasks :
        /\ Returned(call[t]) /\ ~call[t].hit
        /\ call[t].ret.plan = "trial_expired"
        /\ call[t].ret.trialEndsAt = IsoString(now)
        /\ statusCache = call[t].ret /\ cacheTimestamp = now

\* the call found no active subscription, remotely or locally
NoActiveSubscription(c) == ~CheckActive(c.rCheck) /\ ~LocallyActive

\* what C10 concludes for a call c
CorruptTreatedAsExpired(c) ==
    /\ c.ret.plan = "trial_expired"
    /\ ~c.ret.isTrialing
    /\ c.sent["/trial/check"] = 0
    /\ c.sent["/trial/register"] = 0
    /\ "trial" \notin c.wrote
    /\ trial = c.trialAtStart

\* C10 as stated: with no active subscription and a local TrialRecord whose
\* trialEndsAt cannot be parsed, the call returns 'trial_expired', does not call
\* startTrial and leaves the stored record in place.
CorruptDateAsStated ==
    \A t \in Tasks :
        LET c == call[t] IN
        (/\ Returned(c)
         /\ CorruptTrial(c.trialAtStart)
         /\ NoActiveSubscription(c)) => CorruptTreatedAsExpired(c)

\* C10, amended: the same, for a call whose /trial/status did not report a
\* trial (it failed or answered hasTrial = false).
CorruptDateExpires ==
    \A t \in Tasks :
        LET c == call[t] IN
        (/\ Returned(c)
         /\ CorruptTrial(c.trialAtStart)
         /\ NoActiveSubscription(c)
         /\ ~ReportsTrial(c.rStatus)) => CorruptTreatedAsExpired(c)

\* C10, witness: a corrupt local record evaluated after /trial/status answered
\* hasTrial = false
CorruptRecordEvaluated ==
    \E t \in Tasks :
        /\ Returned(call[t]) /\ ~call[t].hit
        /\ CorruptTrial(call[t].trialAtStart)
        /\ call[t].rStatus.kind = "ok" /\ ~call[t].rStatus.body.hasTrial
        /\ call[t].ret.message = "Trial expired (corrupted date)"

\* the step in which task t is handed a status: a call served from the cache
\* at once, or a running call that derived one
GetsStatus(t) ==
    /\ call'[t] # call[t]
    /\ call[t].pc # "gate"
    /\ Returned(call'[t])

\* a stored trial record whose trialEndsAt lies before nowMs
ExpiredRecord(rec, nowMs) ==
    /\ rec.present
    /\ DateParse(rec.trialEndsAt).valid
    /\ DateParse(rec.trialEndsAt).t < nowMs

\* the call of the step sent no trial request and the trial record is still stored
NoReissuance(t) ==
    /\ call'[t].sent["/trial/check"] = 0
    /\ call'[t].sent["/trial/register"] = 0
    /\ trial'.present

TrialIssued(c) ==
    /\ c.rSt.kind = "ok" /\ c.rSt.body.allowed
    /\ ConfirmsRegistration(c.rReg)

\* C12: when /trial/check allows and /trial/register confirms, the call returns
\* {active: false, isTrialing: true, plan: 'trial'}; its trialEndsAt is the one sent
\* in the /trial/register request and the one of the TrialRecord stored locally;
\* and that trialEndsAt was computed, when the approval of /trial/check arrived,
\* as that instant plus TRIAL_DURATION_DAYS days.
NewDeviceIssuance ==
    /\ [](\A t \in Tasks :
            LET c == call[t] IN
            (Returned(c) /\ TrialIssued(c)) =>
                /\ ~c.ret.active /\ c.ret.isTrialing /\ c.ret.plan = "trial"
                /\ c.ret.trialEndsAt = c.regSent
                /\ trial.present /\ trial = c.trialData
                /\ c.ret.trialEndsAt = trial.trialEndsAt
                /\ ~c.trialAtStart.present
                /\ ~CheckActive(c.rCheck) /\ ~ReportsTrial(c.rStatus))
    /\ [][\A t \in Tasks :
            (call[t].pc = "st_check" /\ call'[t].pc = "st_register") =>
                /\ call'[t].regSent = IsoString(now + TRIAL_DURATION_DAYS * DayMs)
                /\ call'[t].trialEndsAt = call'[t].regSent]_vars

\* C12, witness: a trial issued at the start of the session and returned one tick
\* later, its trialEndsAt still three days after the instant of issuance
IssuedTrialReturned ==
    \E t \in Tasks :
        /\ call[t].pc = "done" /\ TrialIssued(call[t])
        /\ now = TickMs
        /\ call[t].ret.trialEndsAt = IsoString(TRIAL_DURATION_DAYS * DayMs)
        /\ trial.trialEndsAt = call[t].ret.trialEndsAt

\* C13: when /trial/check allowed the trial and the /trial/register request fails
\* (the fetch rejects, or the response is not 2xx), the call returns plan 'error',
\* not 'trial_denied' and not 'trial', and no TrialRecord has been written.
RegistrationFailureIsError ==
    \A t \in Tasks :
        LET c == call[t] IN
        (/\ Returned(c)
         /\ c.rSt.kind = "ok" /\ c.rSt.body.allowed
         /\ Failed(c.rReg)) =>
            /\ c.ret.plan = "error"
            /\ ~c.ret.isTrialing /\ ~c.ret.active
            /\ c.ret.message = "Unable to verify trial status"
            /\ c.ret.errorDetails \in {MsgFetchFailed, MsgRegisterHttp}
            /\ c.wrote \cap {"trial", "trialEverUsed", "sync"} = {}
            /\ ~trial.present

\* C13, witness: a registration answered with a non-2xx response, reported as an error
RegistrationHttpError ==
    \E t \in Tasks :
        /\ call[t].pc = "done"
        /\ call[t].rSt.kind = "ok" /\ call[t].rSt.body.allowed
        /\ call[t].rReg.kind = "http_error"
        /\ call[t].ret.plan = "error"
        /\ call[t].ret.errorDetails = MsgRegisterHttp

\* C14: getDeviceToken calls made concurrently, while the initialization is in
\* flight or after it, all wait for the one initialization (none reads the local
\* tier before it has settled), generateDeviceToken runs at most once, and all
\* calls return the same token, the one the local tier holds.
TokenIdempotence ==
    /\ init.generated <= 1
    /\ \A g \in Getters :
         /\ getters[g].pc \in {"local_get", "done"} => InitSettled
         /\ getters[g].pc = "done" =>
               /\ getters[g].result = deviceToken
               /\ getters[g].result # NoToken
    /\ \A g, h \in Getters :
         (getters[g].pc = "done" /\ getters[h].pc = "done") =>
             getters[g].result = getters[h].result

\* C14, witness: three calls, all made while the initialization was running,
\* have returned the token it generated
ConcurrentGettersAgree ==
    /\ init.generated = 1
    /\ \A g \in Getters :
         /\ getters[g].pc = "done" /\ getters[g].early
         /\ getters[g].result = GeneratedToken

LastAnswer(c) == IF c.endpoint = "/check" THEN c.rCheck ELSE c.rStatus

\* makeWorkerRequest of call c has just given up: its last attempt failed and
\* lastError was thrown to the caller
GaveUp(c) ==
    /\ c.attempt = maxRetries
    /\ Failed(LastAnswer(c))
    /\ \/ c.endpoint = "/check" /\ c.pc = "token"
       \/ c.endpoint = "/trial/status" /\ c.pc = "local"

\* at most maxRetries attempts per request, one timeout between two attempts
AttemptsBounded(c) ==
    /\ c.attempt <= maxRetries
    /\ c.sent["/check"] <= maxRetries
    /\ c.sent["/trial/status"] <= maxRetries
    /\ c.pc \in {"cs_fetch", "ts_fetch"} => Len(c.delays) = c.attempt - 1
    /\ c.pc = "mw_backoff" => Len(c.delays) = c.attempt

\* the step in which an attempt of makeWorkerRequest is answered: a 2xx body is
\* returned to the caller, any failure is retried while attempts are left and
\* thrown after the last
AnsweredUniformly(t) ==
    (call[t].pc \in {"cs_fetch", "ts_fetch"} /\ call'[t] # call[t]) =>
        LET r == LastAnswer(call'[t])
            failedTo == IF call[t].pc = "cs_fetch" THEN "token" ELSE "local"
        IN
        /\ call'[t].attempt = call[t].attempt
        /\ r.kind = "ok" =>
              /\ call'[t].pc \in {"cs_stored", "ts_stored", "local"}
              /\ call[t].pc = "cs_fetch" => call'[t].data = r.body
              /\ call'[t].delays = call[t].delays
        /\ (Failed(r) /\ call[t].attempt < maxRetries) => call'[t].pc = "mw_backoff"
        /\ (Failed(r) /\ call[t].attempt = maxRetries) =>
              /\ call'[t].pc = failedTo
              /\ call'[t].delays = call[t].delays

CallPositions ==
    {"idle", "cs_token", "cs_fetch", "mw_backoff", "cs_stored", "token", "ts_fetch",
     "ts_stored", "local", "pre_fetch", "st_token", "st_check", "st_register",
     "st_stored", "st_synced", "gate", "done"}

\* the status is an object built by the reconciler: it has the fields active,
\* plan, isTrialing and message
HasStatusFields(status) == status.shape = "status"

\* something failed in call c: a request, or an access to chrome.storage.local
SomeFailure(c) ==
    \/ c.lost # {}
    \/ Failed(c.rCheck) \/ Failed(c.rStatus) \/ Failed(c.rPre)
    \/ Failed(c.rSt) \/ Failed(c.rReg)

\* a failure that leaves nothing to derive a status from is plan 'error': a
\* rejected read of the local records, and a startTrial that threw
FailureIsError(c) ==
    /\ "localData" \in c.lost =>
          /\ c.ret.plan = "error" /\ ~c.ret.active /\ ~c.ret.isTrialing
          /\ c.ret.message = "Error checking subscription"
    /\ c.ret.plan = "error" =>
          \/ "localData" \in c.lost
          \/ StartTrialThrew(c)
          \/ c.lost \cap {"deviceToken", "trial"} # {}

\* the step in which a call gets a status it derived caches that status
CachesWhatItReturns(t) ==
    Returns(t) =>
        /\ statusCache' = call'[t].ret
        /\ cacheTimestamp' = now

\* C17 as stated: whatever requests and storage accesses fail, the call does not
\* throw but resolves to a status object with the fields active, plan, isTrialing
\* and message, a failure showing as plan 'error', and that status is cached.
NeverThrowsAsStated ==
    /\ [](\A t \in Tasks :
            LET c == call[t] IN
            /\ c.pc \in CallPositions
            /\ (Returned(c) /\ SomeFailure(c)) =>
                  /\ HasStatusFields(c.ret)
                  /\ FailureIsError(c))
    /\ [][\A t \in Tasks : CachesWhatItReturns(t)]_vars

\* C17, amended: the same, the status being either an object built by the
\* reconciler (with the four fields) or an active subscription record handed
\* through as /check sent it or as it was stored.
NeverThrows ==
    /\ [](\A t \in Tasks :
            LET c == call[t] IN
            /\ c.pc \in CallPositions
            /\ Returned(c) =>
                  /\ c.ret # NullStatus
                  /\ \/ HasStatusFields(c.ret)
                     \/ c.ret.shape = "subscription" /\ c.ret.active
                  /\ ~c.hit => FailureIsError(c))
    /\ [][\A t \in Tasks : CachesWhatItReturns(t)]_vars

\* C17, witness: the read of the local records was rejected after /check and
\* /trial/status had failed, and the call returned and cached an 'error' status
StorageFailureReported ==
    \E t \in Tasks :
        /\ call[t].pc = "done"
        /\ "localData" \in call[t].lost
        /\ Failed(call[t].rCheck) /\ Failed(call[t].rStatus)
        /\ call[t].ret.plan = "error"
        /\ statusCache = call[t].ret

\* C19: /check answered active = true during the running tick, inside its
\* getUnifiedSubscriptionStatus or to its own _checkServerStatus
ToldActive(c) ==
    \/ ~tickInfo.hit /\ CheckActive(tickInfo.first)
    \/ c.second /\ CheckActive(c.rCheck)

\* C19: a periodic tick that found the device not active and was told
\* active = true by /check has cleared the status cache and sent exactly one
\* SUBSCRIPTION_ACTIVATED; a tick whose status was active has done neither
PeriodicActivationAsStated ==
    \A t \in Tasks :
        LET c == call[t] IN
        (c.op = "periodic" /\ c.pc = "done") =>
            /\ (~tickInfo.activeAtStart /\ ToldActive(c)) =>
                   (tickInfo.cleared /\ events["periodic"] = 1)
            /\ (c.ret.active) =>
                   (~tickInfo.cleared /\ events["periodic"] = 0)


\* C18: once an active record was written to 'subscription' by a notification
\* hit or by restorePurchase, no step replaces an active local record by an
\* inactive one
NeverDowngradesAsStated ==
    [][((smart.hits > 0 \/ restore.wrote) /\ LocallyActive) => LocallyActive']_vars

\* C20: a run of the poller makes at most maxNotificationChecks polls; it has
\* stopped once an answer had hasNotification, and once the last poll was
\* answered; every hit that was stored has sent SUBSCRIPTION_ACTIVATED
PollerLifetimeAsStated ==
    /\ smart.count <= maxNotificationChecks
    /\ smart.hits > 0 => smart.interval = "cleared"
    /\ (smart.count >= maxNotificationChecks /\ smart.waiting = 0) =>
           smart.interval = "cleared"
    /\ events["poller"] = smart.hits - smart.storing

\* C21: a call whose /check did not report active and whose /trial/status
\* answered hasTrial = true leaves in 'trial' the record rebuilt from the
\* server's trialEndsAt and startedAt, marked restoredFromServer; it returns
\* 'trial' while now is before the server's trialEndsAt and 'trial_expired'
\* otherwise, an unparseable trialEndsAt included; it sends no /trial/check and
\* no /trial/register
RemoteTrialRestoration ==
    [][\A t \in Tasks :
        LET c == call'[t]
            body == c.rStatus.body
            trialEnd == DateParse(body.trialEndsAt)
        IN
        (/\ GetsStatus(t)
         /\ ~c.hit
         /\ ~CheckActive(c.rCheck)
         /\ ReportsTrial(c.rStatus)) =>
            /\ trial' = [present |-> TRUE, deviceToken |-> deviceToken,
                         trialEndsAt |-> body.trialEndsAt, startedAt |-> body.startedAt,
                         serverVerified |-> TRUE, restoredFromServer |-> TRUE]
            /\ c.ret.trialEndsAt = body.trialEndsAt
            /\ ~c.ret.active
            /\ IF trialEnd.valid /\ now < trialEnd.t
               THEN c.ret.plan = "trial" /\ c.ret.isTrialing
               ELSE c.ret.plan = "trial_expired" /\ ~c.ret.isTrialing
            /\ c.sent["/trial/check"] = 0
            /\ c.sent["/trial/register"] = 0]_vars

\* C21, witness: the local record had run out, the server reported a trial with
\* a later end, and the call returned 'trial' with the server's record stored
RestoredOverLocal ==
    \E t \in Tasks :
        LET c == call[t] IN
        /\ Returned(c) /\ ~c.hit
        /\ ReportsTrial(c.rStatus)
        /\ ExpiredRecord(c.trialAtStart, now)
        /\ c.trialAtStart.trialEndsAt # c.rStatus.body.trialEndsAt
        /\ c.ret.plan = "trial"
        /\ trial.restoredFromServer
        /\ trial.trialEndsAt = c.rStatus.body.trialEndsAt

\* C22: a call whose /check failed on every attempt and whose /trial/status
\* failed or reported no trial derives its status from local storage: a stored
\* subscription with active = true is returned as the status, with no
\* /trial/check and no /trial/register sent; otherwise a stored trial record is
\* evaluated for expiry
LocalFallback ==
    [][\A t \in Tasks :
        LET c == call'[t]
            trialEnd == DateParse(trial.trialEndsAt)
        IN
        (/\ GetsStatus(t)
         /\ ~c.hit
         /\ Failed(c.rCheck)
         /\ Failed(c.rStatus) \/ (c.rStatus.kind = "ok" /\ ~c.rStatus.body.hasTrial)) =>
            IF subscription.present /\ subscription.active
            THEN /\ c.ret.shape = "subscription"
                 /\ c.ret.active
                 /\ c.ret.plan = subscription.plan
                 /\ c.sent["/trial/check"] = 0
                 /\ c.sent["/trial/register"] = 0
                 /\ trial' = trial
            ELSE trial.present =>
                 /\ ~c.ret.active
                 /\ c.ret.trialEndsAt = trial.trialEndsAt
                 /\ IF trialEnd.valid /\ now < trialEnd.t
                    THEN c.ret.plan = "trial" /\ c.ret.isTrialing
                    ELSE c.ret.plan = "trial_expired" /\ ~c.ret.isTrialing]_vars

\* C22, witness: both remote lookups failed, and the stored active subscription
\* was returned although a trial record is stored as well
LocalSubscriptionReturned ==
    \E t \in Tasks :
        LET c == call[t] IN
        /\ Returned(c) /\ ~c.hit
        /\ Failed(c.rCheck) /\ Failed(c.rStatus)
        /\ c.sent["/check"] = maxRetries
        /\ c.ret.active /\ c.ret.plan = "pro-yearly"
        /\ trial.present

\* C23: without a device token every call of getUnifiedSubscriptionStatus
\* returns plan 'error', whatever the local records hold, and sends no request
NoIdentityAsStated ==
    \A t \in Tasks :
        LET c == call[t] IN
        (deviceToken = NoToken /\ Returned(c)) =>
            /\ c.ret.plan = "error"
            /\ \A e \in Endpoints : c.sent[e] = 0

\* the calls of trackUsage so far ran one after the other, and all have returned
Sequential ==
    /\ ledger.overlaps = 0
    /\ \A u \in Trackers : trackers[u].pc = "idle"

\* the ordinals of the last min(n, 100) of n calls, oldest first
LastCalls(n) ==
    LET k == IF n < 100 THEN n ELSE 100 IN [i \in 1..k |-> n - k + i]

\* C24: the stored usage.actions never has more than 100 entries; after n
\* trackUsage calls made one after the other it holds exactly the last
\* min(n, 100) tracked actions in call order; trackUsage never changes the
\* trial record, the subscription record, the device token or the status cache
UsageLedgerBound ==
    /\ [](Len(usage.actions) <= 100)
    /\ [](Sequential =>
            /\ usage.count = ledger.completed
            /\ Len(usage.actions) = Len(LastCalls(ledger.completed))
            /\ \A i \in 1..Len(usage.actions) :
                  /\ usage.actions[i].call = LastCalls(ledger.completed)[i]
                  /\ usage.actions[i].action = ActionOf(usage.actions[i].call))
    /\ [][/\ trial' = trial
          /\ subscription' = subscription
          /\ deviceToken' = deviceToken
          /\ statusCache' = statusCache
          /\ cacheTimestamp' = cacheTimestamp]_vars

\* C24, witness: 101 calls were made one after the other; the list holds 100
\* entries and the first call's entry is the one that went
OldestEvicted ==
    /\ Sequential
    /\ ledger.completed = 101
    /\ Len(usage.actions) = 100
    /\ usage.actions[1].call = 2
    /\ usage.actions[100].call = 101

\* C30: once all n trackUsage calls have completed, in any interleaving,
\* usage.count is n and each of the last min(n, 100) actions is in usage.actions
NoLostUsageAsStated ==
    (\A u \in Trackers : trackers[u].pc = "idle") =>
        /\ usage.count = ledger.completed
        /\ \A i \in 1..Len(LastCalls(ledger.completed)) :
              \E j \in 1..Len(usage.actions) :
                  usage.actions[j].call = LastCalls(ledger.completed)[i]

\* C25: with a device token, at the step at which generateCheckoutUrl returns
\* its URL the 'subscription' record is gone and the status cache is empty
\* (statusCache = null, cacheTimestamp = 0); no step of the call changes the
\* trial record or the device token; without a token the call throws and leaves
\* the 'subscription' record and the status cache as they were
CheckoutEffect ==
    [][\A t \in Tasks :
        LET c == call[t]
            d == call'[t]
        IN
        (c.op = "checkout" /\ c.pc # "done" /\ d # c) =>
            /\ trial' = trial
            /\ deviceToken' = deviceToken
            /\ (deviceToken = NoToken) = (d.pc = "done" /\ checkoutInfo'.threw)
            /\ (d.pc = "done" /\ ~checkoutInfo'.threw) =>
                  /\ ~subscription'.present
                  /\ statusCache' = NullStatus
                  /\ cacheTimestamp' = 0
            /\ (d.pc = "done" /\ checkoutInfo'.threw) =>
                  /\ subscription' = subscription
                  /\ statusCache' = statusCache
                  /\ cacheTimestamp' = cacheTimestamp]_vars

\* C25, witness: the call found an active subscription stored and a status
\* cached, and has returned with both gone and the trial record still stored
CheckoutCleared ==
    \E t \in Tasks :
        /\ call[t].op = "checkout" /\ call[t].pc = "done"
        /\ ~checkoutInfo.threw
        /\ checkoutInfo.subscription.present /\ checkoutInfo.subscription.active
        /\ checkoutInfo.statusCache # NullStatus
        /\ ~subscription.present
        /\ statusCache = NullStatus
        /\ trial.present

\* the call is between its first statement and its return
Running(c) == c.pc \notin {"idle", "done"}

\* the steps a running status call can take
Continue(t) ==
    \/ CheckServerToken(t) \/ Backoff(t) \/ CheckResponse(t) \/ CheckStored(t)
    \/ TrialToken(t) \/ TrialStatusResponse(t) \/ TrialRestored(t) \/ LocalData(t)
    \/ PreCheckResponse(t) \/ StartTrialToken(t) \/ StartTrialCheckResponse(t)
    \/ RegisterResponse(t) \/ StartTrialStored(t) \/ StartTrialReturned(t)
    \/ UsageGate(t)

\* how far a call has come: its statement in program order, and inside
\* makeWorkerRequest the attempt and whether its backoff is running
Stage(c) ==
    CASE c.pc = "cs_token" -> 1
      [] c.pc = "cs_fetch" -> 2
      [] c.pc = "mw_backoff" /\ c.endpoint = "/check" -> 2
      [] c.pc = "cs_stored" -> 3
      [] c.pc = "token" -> 4
      [] c.pc = "ts_fetch" -> 5
      [] c.pc = "mw_backoff" /\ c.endpoint = "/trial/status" -> 5
      [] c.pc = "ts_stored" -> 6
      [] c.pc = "local" -> 7
      [] c.pc = "pre_fetch" -> 8
      [] c.pc = "st_token" -> 9
      [] c.pc = "st_check" -> 10
      [] c.pc = "st_register" -> 11
      [] c.pc = "st_stored" -> 12
      [] c.pc = "st_synced" -> 13
      [] c.pc = "gate" -> 14
      [] c.pc = "done" -> 15
      [] OTHER -> 0

Rank(c) ==
    8 * Stage(c)
    + (IF c.pc \in {"cs_fetch", "ts_fetch", "mw_backoff"} THEN 2 * c.attempt ELSE 0)
    + (IF c.pc = "mw_backoff" THEN 1 ELSE 0)

\* C28: a getUnifiedSubscriptionStatus call sends at most 3 /check, 3
\* /trial/status, 2 /trial/check and 1 /trial/register requests; while it runs
\* it always has a next step, every step takes it further in program order
\* (it never starts over), so it terminates
BoundedRemoteWork ==
    /\ [](\A t \in Tasks :
            LET c == call[t] IN
            /\ c.sent["/check"] <= 3
            /\ c.sent["/trial/status"] <= 3
            /\ c.sent["/trial/check"] <= 2
            /\ c.sent["/trial/register"] <= 1
            /\ Running(c) => ENABLED Continue(t))
    /\ [][\A t \in Tasks :
            (Running(call[t]) /\ call'[t] # call[t]) =>
                /\ Rank(call'[t]) > Rank(call[t])
                /\ call'[t].op = call[t].op
                /\ call'[t].forceRefresh = call[t].forceRefresh]_vars

\* C28, witness: a call that sent as many requests as a call can: three /check,
\* three /trial/status, the pre-check, the check of startTrial and the registration
MostRequestsSent ==
    \E t \in Tasks :
        LET c == call[t] IN
        /\ c.pc = "done"
        /\ c.sent["/check"] = 3
        /\ c.sent["/trial/status"] = 3
        /\ c.sent["/trial/check"] = 2
        /\ c.sent["/trial/register"] = 1

\* C29 as stated: every status with isTrialing = true that a call of
\* getUnifiedSubscriptionStatus returns, from the cache or freshly derived, is
\* returned at an instant now < status.trialEndsAt
NoTrialingPastEndAsStated ==
    [][\A t \in Tasks :
        (GetsStatus(t) /\ call'[t].ret.isTrialing) =>
            /\ DateParse(call'[t].ret.trialEndsAt).valid
            /\ now < DateParse(call'[t].ret.trialEndsAt).t]_vars

\* C29, amended: a freshly derived status with isTrialing = true is returned at
\* an instant now < trialEndsAt; one served from the cache was derived before
\* its trialEndsAt and is returned less than CACHE_DURATION after it was
\* derived; canUseExtension answers 'trial' only for a status with isTrialing = true
NoTrialingPastEnd ==
    /\ [][\A t \in Tasks :
            LET c == call'[t]
                trialEnd == DateParse(c.ret.trialEndsAt)
            IN
            (GetsStatus(t) /\ c.ret.isTrialing) =>
                /\ trialEnd.valid
                /\ IF c.hit
                   THEN /\ cacheTimestamp < trialEnd.t
                        /\ now - cacheTimestamp < 30000
                   ELSE now < trialEnd.t]_vars
    /\ [][\A t \in Tasks :
            (call[t].pc = "gate" /\ call'[t].gate.reason = "trial") =>
                /\ call[t].ret.isTrialing
                /\ ~call[t].ret.active]_vars

\* C29, witness: a call served from the cache holds a status with
\* isTrialing = true whose trialEndsAt has passed, inside the cache window
TrialingServedFromCache ==
    \E t \in Tasks :
        LET c == call[t] IN
        /\ Returned(c) /\ c.hit
        /\ c.ret.isTrialing
        /\ DateParse(c.ret.trialEndsAt).t <= now
        /\ now - cacheTimestamp < 30000
        /\ statusCache = c.ret

\* C26: once restorePurchase has written an active record and cleared the
\* cache, a getUnifiedSubscriptionStatus(false) call made while that record is
\* stored does not return, from the cache, the non-active status of a call that
\* had read the local records before the write and returned after the clearing
NoStaleStatusAsStated ==
    [][\A t \in Tasks :
        (/\ restore.pc = "done" /\ restore.wrote
         /\ t \in restore.crossing
         /\ LocallyActive
         /\ call[t].pc = "done"
         /\ call'[t] # call[t]
         /\ call'[t].hit) => call'[t].ret.active]_vars

\* the variant of a status: what the popup tells apart
Variant(status) == <<status.active, status.plan, status.isTrialing>>

\* the /trial/register requests of the two calls
RegistersSent(a, b) == call[a].sent["/trial/register"] + call[b].sent["/trial/register"]

\* C27: when the two getUnifiedSubscriptionStatus(true) calls of the background
\* script on a new device have returned, they returned the same variant, at
\* most one /trial/register request was sent, and the cached status has plan
\* 'trial' like the stored trial record
ConvergesAsStated ==
    (\A t \in Starters : call[t].pc = "done") =>
        /\ Variant(call["initializeBackground"].ret) = Variant(call["onInstalled"].ret)
        /\ RegistersSent("initializeBackground", "onInstalled") <= 1
        /\ trial.present /\ statusCache.plan = "trial"

====
